---- MODULE Spec2Model ----
(***************************************************************************)
(* State-machine model of the momentum trading engine:                     *)
(*   - Backtester.run               (src/backtest/backtester.py)           *)
(*   - RealisticBacktester.run_realistic                                   *)
(*                                  (src/backtest/realistic_backtester.py) *)
(*   - PositionSizer                (src/backtest/position_sizer.py)       *)
(*   - TradingSystem                (src/trading_system.py)                *)
(* Money and prices are exact rationals <<numerator, denominator>>, the    *)
(* real-number reading of the Python float arithmetic.                     *)
(***************************************************************************)
EXTENDS Integers, Sequences, FiniteSets, TLC

\* ------------------------------------------------------------------------
\* Exact rational arithmetic (the model of Python float +, -, *, /, <=)
\* ------------------------------------------------------------------------
Abs(x) == IF x < 0 THEN -x ELSE x

RECURSIVE GCD(_, _)
GCD(a, b) == IF b = 0 THEN a ELSE GCD(b, a % b)

Norm(n, d) ==
    LET g == GCD(Abs(n), Abs(d))
        s == IF d < 0 THEN -1 ELSE 1
    IN  <<(s * n) \div g, (s * d) \div g>>

R(n, d) == Norm(n, d)

Zero == <<0, 1>>

One == <<1, 1>>

LCM(a, b) == (a \div GCD(a, b)) * b

RAdd(x, y) ==
    LET l == LCM(x[2], y[2])
    IN  Norm(x[1] * (l \div x[2]) + y[1] * (l \div y[2]), l)

RNeg(x) == <<-x[1], x[2]>>

RSub(x, y) == RAdd(x, RNeg(y))

RMul(x, y) ==
    LET g1 == GCD(Abs(x[1]), y[2])
        g2 == GCD(Abs(y[1]), x[2])
    IN  Norm((x[1] \div g1) * (y[1] \div g2), (x[2] \div g2) * (y[2] \div g1))

RInv(x) == Norm(x[2], x[1])

RDiv(x, y) == RMul(x, RInv(y))

RSign(x) == IF x[1] > 0 THEN 1 ELSE IF x[1] < 0 THEN -1 ELSE 0

RLe(x, y) == RSign(RSub(y, x)) >= 0

RLt(x, y) == RSign(RSub(y, x)) > 0

\* variant: the new price replaces the peak
RMax_Latest(x, y) == y

\* "if price > self.peak_price: self.peak_price = price"
RMax(x, y) == IF RLt(x, y) THEN y ELSE x


\* ------------------------------------------------------------------------
\* Bounds and input domains
\* ------------------------------------------------------------------------
\* longest run explored: len(trading_days) / number of run_once iterations
MaxSteps == 3

\* the step loop is not continued once the ledger holds this many trades
MaxTrades == 2

\* a live handler is not run when it would take the number of error
\* alerts sent above this
MaxFaults == 2

\* signal_strength of a row whose entry_signal is False
NoSignal == 0

\* Python's None in a field that otherwise holds a day or week number
None == -1

\* Dates are day numbers; day 0 is Monday 2024-06-03, so that day 28 is
\* Monday 2024-07-01, the first day of an ISO week and of a month.
\* datetime.isocalendar()[1] of day number d
IsoWeek(d) == (d \div 7) + 23

\* datetime.now().month of day number d (June 2024 .. August 2024)
MonthOf(d) == IF d < 28 THEN 6 ELSE IF d < 59 THEN 7 ELSE 8

\* PositionSizer.max_position_size_pct, the dataclass default (20%)
max_position_size_pct == R(1, 5)

\* ------------------------------------------------------------------------
\* Configurations: the constructor arguments of the engine and the
\* shape of the input data of one run
\* ------------------------------------------------------------------------
BaseConfig ==
    [ engine                |-> "backtest",
      initial_capital       |-> R(1024, 1),
      risk_per_trade_pct    |-> R(1, 40),
      stop_loss_pct         |-> R(1, 5),
      max_positions         |-> 2,
      commission_pct        |-> R(1, 4),
      slippage_pct          |-> R(1, 5),
      daily_loss_limit_pct  |-> R(1, 32),
      weekly_loss_limit_pct |-> R(1, 16),
      use_ma_exit           |-> TRUE,
      symbols               |-> <<1, 2>>,
      \* shape of the input data (OHLC rows have low <= close <= high):
      \* signal_strength values (percent) that
      \* occur, len(trading_days), first trading day, universe snapshots,
      \* the sets of symbols that can lack a row at a trading day, the
      \* distances (days) between consecutive trading days
      strengths             |-> {95},
      bars                  |-> {[close |-> 1, high |-> 1, low |-> 1],
                                 [close |-> 1, high |-> 2, low |-> 1],
                                 [close |-> 2, high |-> 2, low |-> 2]},
      n_days                |-> MaxSteps,
      start_day             |-> 26,
      universe_updates      |-> << >>,
      missing_rows          |-> {{}},
      day_steps             |-> {1} ]

\* three symbols competing for one slot
RankConfig ==
    [BaseConfig EXCEPT !.max_positions = 1, !.symbols = <<1, 2, 3>>,
                       !.strengths = {40, 90, 95}, !.n_days = 2]

\* six symbols, six slots, 20% of the account per position
WideConfig ==
    [BaseConfig EXCEPT !.max_positions = 6, !.symbols = <<1, 2, 3, 4, 5, 6>>,
                       !.risk_per_trade_pct = R(1, 25), !.strengths = {95},
                       !.bars = {[close |-> 1, high |-> 1, low |-> 1]},
                       !.use_ma_exit = FALSE, !.n_days = 2]

\* RealisticBacktester with a universe scanned every day
\* (universe_update_days=1) that drops symbol 1 on the second day and
\* takes it back on the fourth; symbol 1 can lack a candle at a trading
\* day, and a trading day can be two days after the previous one
DynamicConfig ==
    [BaseConfig EXCEPT !.engine = "realistic",
                       !.universe_updates =
                           <<[date |-> 26, universe |-> <<1, 2>>],
                             [date |-> 27, universe |-> <<2>>],
                             [date |-> 28, universe |-> <<2>>],
                             [date |-> 29, universe |-> <<1, 2>>]>>,
                       !.strengths = {95},
                       !.bars = {[close |-> 1, high |-> 1, low |-> 1],
                                 [close |-> 2, high |-> 2, low |-> 2]},
                       !.missing_rows = {{}, {1}},
                       !.day_steps = {1, 2}]

\* RealisticBacktester(static_universe=[...]): one snapshot at start_date;
\* the candidates of a step tie on signal_strength
StaticConfig ==
    [RankConfig EXCEPT !.engine = "realistic",
                       !.strengths = {95},
                       !.universe_updates =
                           <<[date |-> 26, universe |-> <<1, 2, 3>>]>>]

\* TradingSystem: config.risk of the live system and the shape of what the
\* exchange returns: the signal_strength rows one scan can find (percent,
\* by symbol), the close of a signal candle, the clock advance between two
\* run_once calls (days), what check_exits finds for one position (still
\* open at an unchanged price, price below the MA with a gain, closed by
\* the exchange's trailing stop at a loss), the ticker price at shutdown,
\* the collaborator call that can fail during one handler ("none": no
\* call fails).  Telegram alerts and the trade database are enabled.
LiveConfig ==
    [ engine                 |-> "live",
      initial_capital        |-> R(1000, 1),
      risk_per_trade_pct     |-> R(1, 20),
      stop_loss_pct          |-> R(1, 10),
      max_positions          |-> 2,
      daily_loss_limit_pct   |-> R(1, 10),
      weekly_loss_limit_pct  |-> R(1, 10),
      monthly_loss_limit_pct |-> R(1, 5),
      use_ma_exit            |-> TRUE,
      symbols                |-> <<1, 2, 3>>,
      scans                  |-> {<<0, 0, 0>>, <<90, 95, 40>>},
      signal_price           |-> 2,
      shutdown_price         |-> 1,
      advances               |-> {0, 1},
      outcomes               |-> {[kind |-> "open", price |-> 2],
                                  [kind |-> "ma_exit", price |-> 4],
                                  [kind |-> "exchange_stop", price |-> 1]},
      start_day              |-> 26,
      faults                 |-> {"none"} ]

\* TradingSystem on one symbol whose exchange and database calls can
\* fail: exchange.place_order, exchange.close_position, db.log_trade_entry
\* or db.log_trade_exit raises
FaultConfig ==
    [LiveConfig EXCEPT !.symbols = <<1>>,
                       !.max_positions = 1,
                       !.scans = {<<0>>, <<95>>},
                       !.advances = {0},
                       !.outcomes = {[kind |-> "open", price |-> 3],
                                     [kind |-> "ma_exit", price |-> 4]},
                       !.shutdown_price = 3,
                       !.faults = {"none", "place_order", "close_position",
                                   "log_trade_entry", "log_trade_exit"}]

LiveConfigs == {LiveConfig, FaultConfig}

BacktestConfigs == {BaseConfig, RankConfig, WideConfig}

\* the orders in which a dict built from list(all_symbols), a Python set
\* of strings, can hold the symbols
Orders(symbols) ==
    LET S == {symbols[i] : i \in 1..Len(symbols)}
    IN  {[i \in 1..Len(symbols) |-> f[symbols[i]]] : f \in Permutations(S)}

\* run_realistic builds data and signals from list(all_symbols): the
\* order of the signals dict is any order of the symbols (explored for
\* the static universe, whose candidates tie)
RealisticConfigs ==
    {DynamicConfig} \cup
    {[StaticConfig EXCEPT !.symbols = o] : o \in Orders(StaticConfig.symbols)}

\* ------------------------------------------------------------------------
\* The library functions called on their own (as the unit tests and the
\* scripts call them): the object under call and the inputs of the calls
\* ------------------------------------------------------------------------
\* PositionSizer(account_size, risk_per_trade_pct, stop_loss_pct, max_positions)
SizerConfigs ==
    {[engine |-> "sizer", symbols |-> << >>, initial_capital |-> a,
      risk_per_trade_pct |-> r, stop_loss_pct |-> s, max_positions |-> 2,
      entry_prices |-> {R(1, 4), R(2, 1)}] :
        a \in {Zero, R(1000, 1), R(10000, 1)},
        r \in {R(1, 50), R(1, 20)},
        s \in {R(1, 10), R(1, 5)}}

\* the arguments of calculate_trailing_stop
ExitSignalsConfig ==
    [engine |-> "exit_signals", symbols |-> << >>, initial_capital |-> One,
     entry_prices |-> {R(100, 1), R(120, 1)},
     current_prices |-> {R(95, 1), R(100, 1), R(105, 1)},
     peak_prices |-> {R(125, 1), R(120, 1)},
     trailing_stop_pcts |-> {R(1, 5), R(1, 8)}]

\* Trade objects handed to calculate_performance_metrics
WinningTrade == [return_pct |-> R(1, 10), return_usd |-> R(100, 1)]

LosingTrade == [return_pct |-> R(-1, 20), return_usd |-> R(-50, 1)]

FlatTrade == [return_pct |-> Zero, return_usd |-> Zero]

\* a DataFrame or Series argument, as the sequence of its values
Frame(values) == [frame |-> TRUE, values |-> values]

\* an argument that is no frame at all (None): len() of it raises TypeError
NotAFrame == [frame |-> FALSE, values |-> << >>]

\* the arguments of calculate_performance_metrics
PerformanceConfig ==
    [engine |-> "performance", symbols |-> << >>,
     initial_capital |-> R(10000, 1),
     trade_lists |-> {<< >>, <<WinningTrade>>, <<FlatTrade>>,
                      <<WinningTrade, LosingTrade>>,
                      <<LosingTrade, WinningTrade, WinningTrade>>},
     equity_curves |-> {NotAFrame, Frame(<< >>),
                        Frame(<<R(10000, 1), R(11000, 1), R(9900, 1)>>)},
     return_series |-> {NotAFrame, Frame(<< >>), Frame(<<R(1, 10)>>)}]

\* DynamicUniverseScanner(max_symbols, update_frequency_days) with the
\* scans _load_cache found on disk, the dates asked for and the listings
\* the exchange can answer with.  An entry of the cache is the key, the
\* list stored under it and, for reference only (the code keeps no such
\* field), the date of the API scan that produced the list
ScannerConfigs ==
    {[engine |-> "scanner", symbols |-> << >>, initial_capital |-> One,
      max_symbols |-> 2, update_frequency_days |-> 3,
      cache_file |-> c,
      scan_dates |-> {0, 2, 4, 7},
      listings |-> {<<"A", "B", "C">>, <<"B">>}] :
        c \in {<< >>, <<[date |-> 4, universe |-> <<"C", "A">>,
                          scan_date |-> 4]>>}}

\* no library call made yet
NoCall == [fn |-> "none"]

UnitConfigs ==
    SizerConfigs \cup {ExitSignalsConfig, PerformanceConfig} \cup ScannerConfigs

Configs ==
    BacktestConfigs \cup RealisticConfigs \cup LiveConfigs \cup UnitConfigs

VARIABLES
    config,                \* constructor arguments and run inputs
    pc,                    \* position in the run loop
    day_idx,               \* index of the current step in trading_days
    now,                   \* current_date of the step (day number)
    bar,                   \* the latest OHLC row of every symbol
    capital,               \* self.capital
    account_size,          \* self.sizer.account_size
    positions,             \* self.positions, in dict insertion order
    trades,                \* self.trades
    daily_start_capital,
    weekly_start_capital,
    current_date,
    current_week,
    size_multiplier,
    daily_trading_stopped,
    equity_last,           \* last record appended to self.equity_history
    equity_count,          \* len(self.equity_history)
    risk_events,           \* the "[RISK]" reports / _handle_risk_event calls
    signal_rows,           \* entry_signal / signal_strength rows of this step
    slots_available,       \* slots computed by this step's entry selection
    held_before,           \* symbols held when this step's entry selection began
    current_universe,      \* run_realistic: the universe in force
    next_update_idx,       \* run_realistic: index of the next snapshot
    monthly_start_capital, \* TradingSystem only
    current_month,         \* TradingSystem only
    system_halted,         \* TradingSystem only
    trading_stopped,       \* run_once: check_risk_limits() or system_halted
    exits_checked,         \* run_once: whether it called check_exits
    pending_entries,       \* run_once: the signals its entry loop has not reached
    exchange_positions,    \* symbols with an open position on the exchange
    error_alerts,          \* the telegram.alert_error calls made so far
    call_log,              \* collaborator calls of the latest live handler
    args,                  \* the arguments of the latest library call
    ret,                   \* what the latest library call returned or raised
    universe_history,      \* DynamicUniverseScanner.universe_history, in dict order
    cache_file             \* the scans in the scanner's cache file

vars == <<config, pc, day_idx, now, bar, capital, account_size, positions,
          trades, daily_start_capital, weekly_start_capital, current_date,
          current_week, size_multiplier, daily_trading_stopped, equity_last,
          equity_count, risk_events, signal_rows, slots_available, held_before,
          current_universe, next_update_idx, monthly_start_capital,
          current_month, system_halted, trading_stopped, exits_checked,
          pending_entries, exchange_positions, error_alerts, call_log, args, ret,
          universe_history, cache_file>>

liveVars == <<monthly_start_capital, current_month, system_halted,
              trading_stopped, exits_checked, pending_entries>>

ioVars == <<exchange_positions, error_alerts, call_log>>

unitVars == <<args, ret, universe_history, cache_file>>

riskVars == <<daily_start_capital, weekly_start_capital, current_date,
              current_week, size_multiplier, daily_trading_stopped>>

bookVars == <<capital, account_size, positions, trades>>

stepVars == <<signal_rows, slots_available, held_before>>

\* ------------------------------------------------------------------------
\* Helpers on sequences
\* ------------------------------------------------------------------------
SeqToSet(s) == {s[i] : i \in 1..Len(s)}

Held(ps) == {ps[i].symbol : i \in 1..Len(ps)}

PosOf(ps, sym) == ps[CHOOSE i \in 1..Len(ps) : ps[i].symbol = sym]

\* self.positions[symbol] = position: a dict keeps the slot of a key it has
PutPos(ps, p) ==
    IF p.symbol \in Held(ps)
    THEN [i \in 1..Len(ps) |-> IF ps[i].symbol = p.symbol THEN p ELSE ps[i]]
    ELSE Append(ps, p)

\* variant: the closed position stays in self.positions
RemovePos_Kept(ps, sym) == ps

\* del self.positions[symbol]
RemovePos(ps, sym) == SelectSeq(ps, LAMBDA p : p.symbol # sym)

Prefix(s, n) == SubSeq(s, 1, IF n < Len(s) THEN n ELSE Len(s))

RECURSIVE InsertDesc(_, _)
\* insert x after every element whose strength is >= x.strength
InsertDesc(s, x) ==
    IF s = << >> THEN <<x>>
    ELSE IF Head(s).strength >= x.strength
         THEN <<Head(s)>> \o InsertDesc(Tail(s), x)
         ELSE <<x>> \o s

\* variant: the candidate list left in collection order
SortByStrength_Unsorted(s) == s

RECURSIVE SortByStrength(_)
\* list.sort(key=strength, reverse=True): stable, descending
SortByStrength(s) ==
    IF s = << >> THEN << >>
    ELSE InsertDesc(SortByStrength(SubSeq(s, 1, Len(s) - 1)), s[Len(s)])

\* the sizing without the max_position_size_pct clamp
CalculatePositionSize_Unclamped(acct, cfg, entry_price, current_positions) ==
    IF ~(current_positions < cfg.max_positions)
    THEN [can_open |-> FALSE, error |-> FALSE, position_size_usd |-> Zero,
          position_size_pct |-> Zero, num_contracts |-> Zero, risk_usd |-> Zero]
    ELSE IF acct = Zero
    THEN [can_open |-> FALSE, error |-> TRUE, position_size_usd |-> Zero,
          position_size_pct |-> Zero, num_contracts |-> Zero, risk_usd |-> Zero]
    ELSE
      LET risk0 == RMul(acct, cfg.risk_per_trade_pct)
          size0 == RDiv(risk0, cfg.stop_loss_pct)
      IN  [can_open |-> TRUE, error |-> FALSE, position_size_usd |-> size0,
           position_size_pct |-> RDiv(size0, acct),
           num_contracts |-> RDiv(size0, entry_price), risk_usd |-> risk0]

\* the sizing that also rejects an account too small for a position
CalculatePositionSize_RejectsSmallAccount(acct, cfg, entry_price, current_positions) ==
    IF ~(current_positions < cfg.max_positions) \/ RLe(acct, R(1000, 1))
    THEN [can_open |-> FALSE, error |-> FALSE, position_size_usd |-> Zero,
          position_size_pct |-> Zero, num_contracts |-> Zero, risk_usd |-> Zero]
    ELSE
      LET risk0 == RMul(acct, cfg.risk_per_trade_pct)
          size0 == RDiv(risk0, cfg.stop_loss_pct)
          pct0  == RDiv(size0, acct)
          capped == RLt(max_position_size_pct, pct0)
          size  == IF capped THEN RMul(acct, max_position_size_pct) ELSE size0
          pct   == IF capped THEN max_position_size_pct ELSE pct0
          risk  == IF capped THEN RMul(size, cfg.stop_loss_pct) ELSE risk0
      IN  [can_open |-> TRUE, error |-> FALSE, position_size_usd |-> size,
           position_size_pct |-> pct, num_contracts |-> RDiv(size, entry_price),
           risk_usd |-> risk]

\* ------------------------------------------------------------------------
\* PositionSizer.calculate_position_size
\* ------------------------------------------------------------------------
CalculatePositionSize(acct, cfg, entry_price, current_positions) ==
    IF ~(current_positions < cfg.max_positions)
    THEN [can_open |-> FALSE, error |-> FALSE, position_size_usd |-> Zero,
          position_size_pct |-> Zero, num_contracts |-> Zero, risk_usd |-> Zero]
    ELSE IF acct = Zero
    THEN \* position_size_usd / self.account_size raises ZeroDivisionError
         [can_open |-> FALSE, error |-> TRUE, position_size_usd |-> Zero,
          position_size_pct |-> Zero, num_contracts |-> Zero, risk_usd |-> Zero]
    ELSE
      LET risk0 == RMul(acct, cfg.risk_per_trade_pct)
          size0 == RDiv(risk0, cfg.stop_loss_pct)
          pct0  == RDiv(size0, acct)
          capped == RLt(max_position_size_pct, pct0)
          size  == IF capped THEN RMul(acct, max_position_size_pct) ELSE size0
          pct   == IF capped THEN max_position_size_pct ELSE pct0
          risk  == IF capped THEN RMul(size, cfg.stop_loss_pct) ELSE risk0
      IN  [can_open |-> TRUE, error |-> FALSE, position_size_usd |-> size,
           position_size_pct |-> pct, num_contracts |-> RDiv(size, entry_price),
           risk_usd |-> risk]

\* ------------------------------------------------------------------------
\* Backtester bookkeeping: st = [capital, account_size, positions, trades,
\* crashed]
\* ------------------------------------------------------------------------
Book(c, a, ps, ts) ==
    [capital |-> c, account_size |-> a, positions |-> ps, trades |-> ts,
     crashed |-> FALSE]

\* Backtester._open_position
OpenPosition(st, cfg, mult, symbol, entry_date, entry_price, entry_high, entry_low) ==
    LET slipped == RMul(entry_price, RAdd(One, cfg.slippage_pct))
        sizing  == CalculatePositionSize(st.account_size, cfg, slipped,
                                         Len(st.positions))
        size    == RMul(sizing.position_size_usd, mult)
        qty     == RMul(sizing.num_contracts, mult)
        commission == RMul(size, cfg.commission_pct)
        position == [symbol            |-> symbol,
                     entry_date        |-> entry_date,
                     entry_price       |-> slipped,
                     position_size_usd |-> RSub(size, commission),
                     num_contracts     |-> qty,
                     peak_price        |-> slipped,
                     df_high           |-> entry_high,
                     df_low            |-> entry_low]
    IN  IF st.crashed THEN st
        ELSE IF sizing.error THEN [st EXCEPT !.crashed = TRUE]
        ELSE IF ~sizing.can_open THEN st
        ELSE [st EXCEPT !.positions = PutPos(st.positions, position),
                        !.capital = RSub(st.capital, size)]

\* variant: the ledger records the gross P&L
NetPnl_Gross(gross_pnl, exit_commission) == gross_pnl

\* net_pnl = gross_pnl - exit_commission
NetPnl(gross_pnl, exit_commission) == RSub(gross_pnl, exit_commission)

\* variant: an exit at the close itself
ExitPrice_NoSlippage(close_price, slippage_pct) == close_price

\* exit_price = exit_details['close'] * (1 - self.slippage_pct), whatever
\* the exit reason
ExitPrice(close_price, slippage_pct) == RMul(close_price, RSub(One, slippage_pct))

\* variant: the low of the exit row alone
MinLow_Latest(a, b) == b

\* df.iloc[entry_index:exit_idx+1]['low'].min(), row by row
MinLow(a, b) == IF b < a THEN b ELSE a

\* Backtester._close_position; exit_low is the low of row exit_idx
ClosePosition(st, cfg, symbol, close_price, exit_low, exit_date, exit_reason) ==
    LET position == PosOf(st.positions, symbol)
        window_low == R(MinLow(position.df_low, exit_low), 1)
        exit_price == ExitPrice(close_price, cfg.slippage_pct)
        price_return == RDiv(RSub(exit_price, position.entry_price),
                             position.entry_price)
        gross_pnl == RMul(position.num_contracts,
                          RSub(exit_price, position.entry_price))
        position_value == RMul(position.num_contracts, exit_price)
        exit_commission == RMul(position_value, cfg.commission_pct)
        net_pnl == NetPnl(gross_pnl, exit_commission)
        new_capital == RAdd(st.capital, RSub(position_value, exit_commission))
        trade == [symbol            |-> symbol,
                  entry_date        |-> position.entry_date,
                  entry_price       |-> position.entry_price,
                  exit_date         |-> exit_date,
                  exit_price        |-> exit_price,
                  position_size_usd |-> position.position_size_usd,
                  num_contracts     |-> position.num_contracts,
                  return_pct        |-> price_return,
                  return_usd        |-> net_pnl,
                  exit_reason       |-> exit_reason,
                  peak_price        |-> position.peak_price,
                  max_adverse_excursion |->
                      RDiv(RSub(window_low, position.entry_price),
                           position.entry_price)]
    IN  IF st.crashed THEN st
        ELSE [st EXCEPT !.capital = new_capital,
                        !.account_size = new_capital,
                        !.positions = RemovePos(st.positions, symbol),
                        !.trades = Append(st.trades, trade)]

RECURSIVE CloseMany(_, _, _)
\* the "for symbol, exit_idx, exit_details in positions_to_close" loops
CloseMany(st, cfg, exits) ==
    IF exits = << >> THEN st
    ELSE CloseMany(ClosePosition(st, cfg, Head(exits).symbol, Head(exits).close,
                                 Head(exits).low, Head(exits).timestamp,
                                 Head(exits).exit_reason),
                   cfg, Tail(exits))

RECURSIVE OpenMany(_, _, _, _)
\* "for opp in ...: self._open_position(...)"
OpenMany(st, cfg, mult, opps) ==
    IF opps = << >> THEN st
    ELSE OpenMany(OpenPosition(st, cfg, mult, Head(opps).symbol, Head(opps).date,
                               Head(opps).price, Head(opps).high,
                               Head(opps).low),
                  cfg, mult, Tail(opps))

\* variant: every candidate is booked, whatever the number of open positions
OpenEntries_NoSlotCheck(st, cfg, mult, opps) ==
    [st EXCEPT !.positions = st.positions \o
        [i \in 1..Len(opps) |->
            [symbol            |-> opps[i].symbol,
             entry_date        |-> opps[i].date,
             entry_price       |-> opps[i].price,
             position_size_usd |-> Zero,
             num_contracts     |-> Zero,
             peak_price        |-> opps[i].price,
             df_high           |-> opps[i].high,
             df_low            |-> opps[i].low]]]

\* slots_available = self.max_positions - len(self.positions), then
\* "for opp in entry_opportunities[:slots_available]: _open_position"
OpenEntries(st, cfg, mult, opps) ==
    OpenMany(st, cfg, mult, Prefix(opps, cfg.max_positions - Len(st.positions)))

\* ------------------------------------------------------------------------
\* Risk limits of the backtester; rk = [daily_start_capital,
\* weekly_start_capital, current_date, current_week, size_multiplier,
\* daily_trading_stopped]
\* ------------------------------------------------------------------------
Risk(dsc, wsc, cd, cw, sm, dts) ==
    [daily_start_capital |-> dsc, weekly_start_capital |-> wsc,
     current_date |-> cd, current_week |-> cw, size_multiplier |-> sm,
     daily_trading_stopped |-> dts]

\* variant: strict comparison, a drop of exactly the limit does not trigger
LossBreached_Strict(cap, start, limit) ==
    RLt(RDiv(RSub(cap, start), start), RNeg(limit))

\* (capital - start) / start <= -limit
LossBreached(cap, start, limit) ==
    RLe(RDiv(RSub(cap, start), start), RNeg(limit))

\* variant: every breaching check halves the multiplier again
WeeklyReduction_Repeated(breached, mult) ==
    IF breached THEN RMul(mult, R(1, 2)) ELSE mult

\* "if weekly_loss_pct <= -limit and self.size_multiplier == 1.0:
\*      self.size_multiplier = 0.5"
WeeklyReduction(breached, mult) ==
    IF breached /\ mult = One THEN R(1, 2) ELSE mult

\* variant: the daily reference is taken at the first check only
CheckDailyLossLimit_FirstReference(rk, cap, cfg, date) ==
    LET r1 == IF rk.current_date = None
              THEN [rk EXCEPT !.current_date = date,
                              !.daily_start_capital = cap,
                              !.daily_trading_stopped = FALSE]
              ELSE rk
    IN  IF r1.daily_trading_stopped
        THEN [rk |-> r1, stop |-> TRUE, error |-> FALSE, events |-> << >>]
        ELSE IF r1.daily_start_capital = Zero
        THEN [rk |-> r1, stop |-> FALSE, error |-> TRUE, events |-> << >>]
        ELSE IF LossBreached(cap, r1.daily_start_capital, cfg.daily_loss_limit_pct)
        THEN [rk |-> [r1 EXCEPT !.daily_trading_stopped = TRUE],
              stop |-> TRUE, error |-> FALSE,
              events |-> <<[type |-> "DAILY_LOSS_LIMIT", date |-> date]>>]
        ELSE [rk |-> r1, stop |-> FALSE, error |-> FALSE, events |-> << >>]

\* Backtester._check_daily_loss_limit: [rk, stop, error]
CheckDailyLossLimit(rk, cap, cfg, date) ==
    LET r1 == IF rk.current_date # date
              THEN [rk EXCEPT !.current_date = date,
                              !.daily_start_capital = cap,
                              !.daily_trading_stopped = FALSE]
              ELSE rk
    IN  IF r1.daily_trading_stopped
        THEN [rk |-> r1, stop |-> TRUE, error |-> FALSE, events |-> << >>]
        ELSE IF r1.daily_start_capital = Zero
        THEN [rk |-> r1, stop |-> FALSE, error |-> TRUE, events |-> << >>]
        ELSE IF LossBreached(cap, r1.daily_start_capital, cfg.daily_loss_limit_pct)
        THEN [rk |-> [r1 EXCEPT !.daily_trading_stopped = TRUE],
              stop |-> TRUE, error |-> FALSE,
              events |-> <<[type |-> "DAILY_LOSS_LIMIT", date |-> date]>>]
        ELSE [rk |-> r1, stop |-> FALSE, error |-> FALSE, events |-> << >>]

\* Backtester._check_weekly_loss_limit: [rk, error]
CheckWeeklyLossLimit(rk, cap, cfg, date) ==
    LET week == IsoWeek(date)
        r1 == IF rk.current_week # week
              THEN [rk EXCEPT !.current_week = week,
                              !.weekly_start_capital = cap,
                              !.size_multiplier = One]
              ELSE rk
    IN  IF r1.weekly_start_capital = Zero
        THEN [rk |-> r1, error |-> TRUE, events |-> << >>]
        ELSE LET breached == LossBreached(cap, r1.weekly_start_capital,
                                          cfg.weekly_loss_limit_pct)
                 mult == WeeklyReduction(breached, r1.size_multiplier)
             IN  [rk |-> [r1 EXCEPT !.size_multiplier = mult], error |-> FALSE,
                  events |-> IF mult # r1.size_multiplier
                             THEN <<[type |-> "WEEKLY_LOSS_LIMIT", date |-> date]>>
                             ELSE << >>]

\* variant: a breach closes every open position
PositionsAfterBreach_Liquidated(ps, events) ==
    IF events = << >> THEN ps ELSE << >>

\* the breach branches of the risk checks set a flag or the multiplier,
\* print and notify; none of them assigns self.positions
PositionsAfterBreach(ps, events) == ps

\* ------------------------------------------------------------------------
\* Input data of one step
\* ------------------------------------------------------------------------
Syms == SeqToSet(config.symbols)

\* df[df['timestamp'] == current_date] is not empty: the symbol's latest
\* row is the row of this date
HasRow(bars, s, date) == bars[s].timestamp = date

\* variant: a symbol is a candidate even while it has an open position
IsCandidate_IgnoringHeld(s, held, universe, sig) ==
    s \in universe /\ sig[s] # NoSignal

\* the three tests of the candidate loop: in current_universe, not in
\* self.positions, an entry_signal row on this date
IsCandidate(s, held, universe, sig) ==
    s \in universe /\ s \notin held /\ sig[s] # NoSignal

RECURSIVE Opportunities(_, _, _, _, _, _)
\* the candidate loop of _check_entries / _check_entries_filtered, over
\* the symbols in dict order
Opportunities(order, held, universe, sig, bars, date) ==
    IF order = << >> THEN << >>
    ELSE LET s == Head(order)
             rest == Opportunities(Tail(order), held, universe, sig, bars, date)
         IN  IF ~IsCandidate(s, held, universe, sig) THEN rest
             ELSE <<[symbol |-> s, date |-> date, price |-> R(bars[s].close, 1),
                     high |-> bars[s].high, low |-> bars[s].low,
                     strength |-> sig[s]]>> \o rest

\* nothing called yet: the symbols for which exchange.close_position
\* raised, those for which exchange.place_order raised, those for which
\* execute_entry returned False
NoCalls == [close_failed |-> {}, place_failed |-> {}, entry_false |-> {}]

\* ------------------------------------------------------------------------
\* Backtester.run
\* ------------------------------------------------------------------------
InitWith(cfgs) ==
    /\ config \in cfgs
    /\ pc = IF config.engine = "live" THEN "waiting"
            ELSE IF config \in UnitConfigs THEN "call" ELSE "loop"
    /\ day_idx = 0
    /\ now = None
    /\ bar = [s \in SeqToSet(config.symbols) |->
                 [close |-> 1, high |-> 1, low |-> 1, timestamp |-> None]]
    /\ capital = config.initial_capital
    /\ account_size = config.initial_capital
    /\ positions = << >>
    /\ trades = << >>
    /\ daily_start_capital = config.initial_capital
    /\ weekly_start_capital = config.initial_capital
    /\ current_date = None
    /\ current_week = None
    /\ size_multiplier = One
    /\ daily_trading_stopped = FALSE
    /\ equity_last = [date |-> None]
    /\ equity_count = 0
    /\ risk_events = << >>
    /\ signal_rows = << >>
    /\ slots_available = None
    /\ held_before = {}
    /\ current_universe = << >>
    /\ next_update_idx = 0
    /\ monthly_start_capital = config.initial_capital
    /\ current_month = None
    /\ system_halted = FALSE
    /\ trading_stopped = FALSE
    /\ exits_checked = FALSE
    /\ pending_entries = << >>
    /\ exchange_positions = {}
    /\ error_alerts = << >>
    /\ call_log = NoCalls
    /\ args = NoCall
    /\ ret = NoCall
    /\ universe_history = IF config.engine = "scanner"
                          THEN config.cache_file ELSE << >>
    /\ cache_file = IF config.engine = "scanner"
                    THEN config.cache_file ELSE << >>

Init == InitWith(Configs)

\* variant: entries are selected before the exits are checked
NextPhase_EntriesFirst(engine, phase) ==
    CASE phase = "loop" -> "entries"
      [] phase = "entries" -> IF engine = "realistic" THEN "universe_exits"
                              ELSE "exits"
      [] phase = "universe_exits" -> "exits"
      [] phase = "exits" -> "equity"
      [] phase = "equity" -> "loop"

\* the order of the calls in the body of the step loop
NextPhase(engine, phase) ==
    CASE phase = "loop" -> IF engine = "realistic" THEN "universe_exits"
                           ELSE "exits"
      [] phase = "universe_exits" -> "exits"
      [] phase = "exits" -> "entries"
      [] phase = "entries" -> "equity"
      [] phase = "equity" -> "loop"

\* loop head: "for day_idx, current_date in enumerate(trading_days)"
BeginStep ==
    /\ pc = "loop"
    /\ day_idx < MaxSteps
    /\ day_idx < config.n_days
    /\ Len(trades) < MaxTrades
    /\ day_idx' = day_idx + 1
    /\ \E step \in config.day_steps :
         now' = IF day_idx = 0 THEN config.start_day ELSE now + step
    /\ \E b \in config.bars : \E missing \in config.missing_rows :
         bar' = [s \in Syms |->
                    IF s \in missing THEN bar[s]
                    ELSE [close |-> b.close, high |-> b.high, low |-> b.low,
                          timestamp |-> now']]
    /\ UNCHANGED <<stepVars, risk_events>>
    /\ IF config.engine = "realistic"
       THEN \* "Update universe if needed"
            /\ IF /\ next_update_idx < Len(config.universe_updates)
                  /\ now' >= config.universe_updates[next_update_idx + 1].date
               THEN /\ current_universe' =
                          config.universe_updates[next_update_idx + 1].universe
                    /\ next_update_idx' = next_update_idx + 1
               ELSE UNCHANGED <<current_universe, next_update_idx>>
       ELSE UNCHANGED <<current_universe, next_update_idx>>
    /\ pc' = NextPhase(config.engine, "loop")
    /\ UNCHANGED <<config, unitVars, bookVars, riskVars, equity_last, equity_count,
                   liveVars, ioVars>>

\* variant: the forced exit does not wait for a row of the symbol
UniverseExits_AnyRow(ps, universe, bars, date) ==
    LET gone == SelectSeq(ps, LAMBDA p : p.symbol \notin universe)
    IN  [i \in 1..Len(gone) |->
            [symbol |-> gone[i].symbol,
             close |-> R(bars[gone[i].symbol].close, 1),
             low |-> bars[gone[i].symbol].low,
             timestamp |-> date,
             exit_reason |-> "removed_from_universe"]]

\* positions_to_close of _check_universe_exits: the held symbols that are
\* not in current_universe and have a row at current_date
UniverseExits(ps, universe, bars, date) ==
    LET gone == SelectSeq(ps, LAMBDA p : /\ p.symbol \notin universe
                                         /\ HasRow(bars, p.symbol, date))
    IN  [i \in 1..Len(gone) |->
            [symbol |-> gone[i].symbol,
             close |-> R(bars[gone[i].symbol].close, 1),
             low |-> bars[gone[i].symbol].low,
             timestamp |-> date,
             exit_reason |-> "removed_from_universe"]]

\* RealisticBacktester._check_universe_exits
CheckUniverseExits ==
    /\ pc = "universe_exits"
    /\ LET st == CloseMany(Book(capital, account_size, positions, trades),
                           config,
                           UniverseExits(positions, SeqToSet(current_universe),
                                         bar, now))
       IN  /\ capital' = st.capital
           /\ account_size' = st.account_size
           /\ positions' = st.positions
           /\ trades' = st.trades
    /\ pc' = NextPhase(config.engine, "universe_exits")
    /\ UNCHANGED <<config, unitVars, day_idx, now, bar, riskVars, equity_last,
                   equity_count, stepVars, risk_events, current_universe,
                   next_update_idx, liveVars, ioVars>>

\* Position.update_peak over the open positions that have a row at
\* current_date, as _check_exits does
UpdatePeaks(ps, bars, date) ==
    [i \in 1..Len(ps) |->
        LET h == R(bars[ps[i].symbol].high, 1)
        IN  IF ~HasRow(bars, ps[i].symbol, date) THEN ps[i]
            ELSE [ps[i] EXCEPT
                     !.peak_price = RMax(ps[i].peak_price, h),
                     !.df_high = IF bars[ps[i].symbol].high > ps[i].df_high
                                 THEN bars[ps[i].symbol].high
                                 ELSE ps[i].df_high,
                     !.df_low = MinLow(ps[i].df_low, bars[ps[i].symbol].low)]]

\* the function with a strict comparison at the stop level
CalculateTrailingStop_Strict(entry_price, current_price, peak_price, trailing_stop_pct) ==
    LET stop_level == RMul(peak_price, RSub(One, trailing_stop_pct))
    IN  [stop_level |-> stop_level,
         stop_triggered |-> RLt(current_price, stop_level)]

\* signals.exit_signals.calculate_trailing_stop
CalculateTrailingStop(entry_price, current_price, peak_price, trailing_stop_pct) ==
    LET stop_level == RMul(peak_price, RSub(One, trailing_stop_pct))
    IN  [stop_level |-> stop_level,
         stop_triggered |-> RLe(current_price, stop_level)]

\* check_exit_signal's call of calculate_trailing_stop, on the peak of
\* the df window [entry_index, current_index]
StopTriggered(p, cfg, bars) ==
    CalculateTrailingStop(p.entry_price, R(bars[p.symbol].close, 1),
                          R(p.df_high, 1), cfg.stop_loss_pct).stop_triggered

\* signals.exit_signals.check_exit_signal for every open position that
\* has a row at current_date
ExitList(ps, cfg, bars, ma, date) ==
    LET hit(p) == /\ HasRow(bars, p.symbol, date)
                  /\ \/ StopTriggered(p, cfg, bars)
                     \/ cfg.use_ma_exit /\ ma[p.symbol]
        due == SelectSeq(ps, hit)
    IN  [i \in 1..Len(due) |->
            [symbol |-> due[i].symbol,
             close |-> R(bars[due[i].symbol].close, 1),
             low |-> bars[due[i].symbol].low,
             timestamp |-> date,
             exit_reason |-> IF StopTriggered(due[i], cfg, bars)
                             THEN "trailing_stop" ELSE "ma_exit"]]

\* Backtester._check_exits
CheckExits ==
    /\ pc = "exits"
    /\ \E ma \in [Held(positions) -> IF config.use_ma_exit THEN BOOLEAN ELSE {FALSE}] :
         LET ps == UpdatePeaks(positions, bar, now)
             st == CloseMany(Book(capital, account_size, ps, trades), config,
                             ExitList(ps, config, bar, ma, now))
         IN  /\ capital' = st.capital
             /\ account_size' = st.account_size
             /\ positions' = st.positions
             /\ trades' = st.trades
    /\ pc' = NextPhase(config.engine, "exits")
    /\ UNCHANGED <<config, unitVars, day_idx, now, bar, riskVars, equity_last,
                   equity_count, stepVars, risk_events, current_universe,
                   next_update_idx, liveVars, ioVars>>

\* the rows of the signal frames at current_date: a symbol with no row
\* at this date has no entry_signal row
SignalRows(cfg, bars, date) ==
    {sig \in [SeqToSet(cfg.symbols) -> cfg.strengths \cup {NoSignal}] :
        \A s \in SeqToSet(cfg.symbols) :
            ~HasRow(bars, s, date) => sig[s] = NoSignal}

\* Backtester._check_entries
CheckEntries ==
    /\ pc = "entries"
    /\ config.engine = "backtest"
    /\ \E sig \in SignalRows(config, bar, now) :
         LET rk0 == Risk(daily_start_capital, weekly_start_capital, current_date,
                         current_week, size_multiplier, daily_trading_stopped)
             d == CheckDailyLossLimit(rk0, capital, config, now)
             w == CheckWeeklyLossLimit(d.rk, capital, config, now)
             rk == IF d.stop \/ d.error THEN d.rk ELSE w.rk
             selecting == /\ ~d.stop /\ ~d.error /\ ~w.error
                          /\ Len(positions) < config.max_positions
             opps == SortByStrength(
                        Opportunities(config.symbols, Held(positions), Syms,
                                      sig, bar, now))
             slots == config.max_positions - Len(positions)
             breaches == d.events \o
                             (IF d.stop \/ d.error THEN << >> ELSE w.events)
             st == OpenEntries(Book(capital, account_size,
                                    PositionsAfterBreach(positions, breaches),
                                    trades),
                               config, rk.size_multiplier, opps)
             failed == d.error \/ (~d.stop /\ w.error) \/ (selecting /\ st.crashed)
         IN  /\ daily_start_capital' = rk.daily_start_capital
             /\ weekly_start_capital' = rk.weekly_start_capital
             /\ current_date' = rk.current_date
             /\ current_week' = rk.current_week
             /\ size_multiplier' = rk.size_multiplier
             /\ daily_trading_stopped' = rk.daily_trading_stopped
             /\ risk_events' = risk_events \o breaches
             /\ IF selecting
                THEN /\ capital' = st.capital
                     /\ positions' = st.positions
                     /\ slots_available' = slots
                ELSE /\ positions' = PositionsAfterBreach(positions, breaches)
                     /\ UNCHANGED <<capital, slots_available>>
             /\ signal_rows' = sig
             /\ held_before' = Held(positions)
             /\ pc' = IF failed THEN "crashed"
                      ELSE NextPhase(config.engine, "entries")
    /\ UNCHANGED <<config, unitVars, day_idx, now, bar, account_size, trades, equity_last,
                   equity_count, current_universe, next_update_idx, liveVars, ioVars>>

\* RealisticBacktester._check_entries_filtered
CheckEntriesFiltered ==
    /\ pc = "entries"
    /\ config.engine = "realistic"
    /\ \E sig \in SignalRows(config, bar, now) :
         LET selecting == Len(positions) < config.max_positions
             opps == SortByStrength(
                        Opportunities(config.symbols, Held(positions),
                                      SeqToSet(current_universe), sig, bar, now))
             slots == config.max_positions - Len(positions)
             st == OpenEntries(Book(capital, account_size, positions, trades),
                               config, size_multiplier, opps)
         IN  /\ IF selecting
                THEN /\ capital' = st.capital
                     /\ positions' = st.positions
                     /\ slots_available' = slots
                ELSE UNCHANGED <<capital, positions, slots_available>>
             /\ signal_rows' = sig
             /\ held_before' = Held(positions)
             /\ pc' = IF selecting /\ st.crashed THEN "crashed"
                      ELSE NextPhase(config.engine, "entries")
    /\ UNCHANGED <<config, unitVars, day_idx, now, bar, account_size, trades, riskVars,
                   risk_events, equity_last, equity_count, current_universe,
                   next_update_idx, liveVars, ioVars>>

RECURSIVE PositionsValue(_, _, _)
\* the loop of _update_equity: a position whose symbol has no row at
\* current_date is passed over ("except: continue")
PositionsValue(ps, bars, date) ==
    IF ps = << >> THEN Zero
    ELSE IF ~HasRow(bars, Head(ps).symbol, date)
    THEN PositionsValue(Tail(ps), bars, date)
    ELSE RAdd(RMul(Head(ps).num_contracts, R(bars[Head(ps).symbol].close, 1)),
              PositionsValue(Tail(ps), bars, date))

\* Backtester._update_equity
UpdateEquity ==
    /\ pc = "equity"
    /\ equity_last' = [date |-> now,
                       equity |-> RAdd(capital,
                                       PositionsValue(positions, bar, now)),
                       cash |-> capital,
                       positions_value |-> PositionsValue(positions, bar, now),
                       num_positions |-> Len(positions)]
    /\ equity_count' = equity_count + 1
    /\ pc' = NextPhase(config.engine, "equity")
    /\ signal_rows' = << >>
    /\ slots_available' = None
    /\ held_before' = {}
    /\ UNCHANGED <<config, unitVars, day_idx, now, bar, bookVars, riskVars, risk_events,
                   current_universe, next_update_idx, liveVars, ioVars>>

\* variant: only the first open position is closed
FinalExits_FirstOnly(ps, bars) ==
    [i \in 1..(IF ps = << >> THEN 0 ELSE 1) |->
        [symbol |-> ps[i].symbol,
         close |-> R(bars[ps[i].symbol].close, 1),
         low |-> bars[ps[i].symbol].low,
         timestamp |-> bars[ps[i].symbol].timestamp,
         exit_reason |-> "end_of_backtest"]]

\* the loop of _close_all_positions: every open position, at the close
\* and timestamp of the last row of its symbol's frame
FinalExits(ps, bars) ==
    [i \in 1..Len(ps) |->
        [symbol |-> ps[i].symbol,
         close |-> R(bars[ps[i].symbol].close, 1),
         low |-> bars[ps[i].symbol].low,
         timestamp |-> bars[ps[i].symbol].timestamp,
         exit_reason |-> "end_of_backtest"]]

\* Backtester._close_all_positions, then _generate_results
CloseAllPositions ==
    /\ pc = "loop"
    /\ LET st == CloseMany(Book(capital, account_size, positions, trades),
                           config, FinalExits(positions, bar))
       IN  /\ capital' = st.capital
           /\ account_size' = st.account_size
           /\ positions' = st.positions
           /\ trades' = st.trades
    /\ pc' = "done"
    /\ UNCHANGED <<config, unitVars, day_idx, now, bar, riskVars, equity_last,
                   equity_count, stepVars, risk_events, current_universe,
                   next_update_idx, liveVars, ioVars>>

\* ------------------------------------------------------------------------
\* TradingSystem (live): rk = the risk fields of the system
\* ------------------------------------------------------------------------
LiveRisk ==
    [daily_start_capital |-> daily_start_capital,
     weekly_start_capital |-> weekly_start_capital,
     monthly_start_capital |-> monthly_start_capital,
     current_date |-> current_date, current_week |-> current_week,
     current_month |-> current_month, size_multiplier |-> size_multiplier,
     daily_trading_stopped |-> daily_trading_stopped,
     system_halted |-> system_halted]

\* TradingSystem.check_risk_limits at date: [rk, stop, events].  The three
\* divisions are by a start capital that is positive in every run explored.
LiveCheckRiskLimits(rk, cap, cfg, date) ==
    LET r1 == IF rk.current_date # date
              THEN [rk EXCEPT !.current_date = date,
                              !.daily_start_capital = cap,
                              !.daily_trading_stopped = FALSE]
              ELSE rk
        r2 == IF r1.current_week # IsoWeek(date)
              THEN [r1 EXCEPT !.current_week = IsoWeek(date),
                              !.weekly_start_capital = cap,
                              !.size_multiplier = One]
              ELSE r1
        mult == WeeklyReduction(
                    LossBreached(cap, r2.weekly_start_capital,
                                 cfg.weekly_loss_limit_pct),
                    r2.size_multiplier)
        weekly == IF mult # r2.size_multiplier
                  THEN <<[type |-> "WEEKLY_LOSS_LIMIT", date |-> date]>>
                  ELSE << >>
        r3 == [r2 EXCEPT !.size_multiplier = mult]
        r4 == IF r3.current_month # MonthOf(date)
              THEN [r3 EXCEPT !.current_month = MonthOf(date),
                              !.monthly_start_capital = cap]
              ELSE r3
    IN  IF r1.daily_trading_stopped
        THEN [rk |-> r1, stop |-> TRUE, events |-> << >>]
        ELSE IF LossBreached(cap, r1.daily_start_capital, cfg.daily_loss_limit_pct)
        THEN [rk |-> [r1 EXCEPT !.daily_trading_stopped = TRUE], stop |-> TRUE,
              events |-> <<[type |-> "DAILY_LOSS_LIMIT", date |-> date]>>]
        ELSE IF LossBreached(cap, r4.monthly_start_capital,
                             cfg.monthly_loss_limit_pct)
        THEN [rk |-> [r4 EXCEPT !.system_halted = TRUE], stop |-> TRUE,
              events |-> weekly \o <<[type |-> "MONTHLY_LOSS_LIMIT", date |-> date]>>]
        ELSE [rk |-> r4, stop |-> FALSE, events |-> weekly]

\* variant: the gate looks at the result of this check only
Blocked_ThisCheckOnly(stop, halted) == stop

\* run_once: "if self.check_risk_limits() or self.system_halted: return"
Blocked(stop, halted) == stop \/ halted

\* the engine and what it has done to its collaborators: st = [capital,
\* positions, exchange, alerts, log]
LiveState(c, ps, ex, al) ==
    [capital |-> c, positions |-> ps, exchange |-> ex, alerts |-> al,
     log |-> NoCalls]

\* variant: the P&L is applied whether or not the exchange closed
PnlApplied_Always(exchange_ok) == TRUE

\* _close_position: "self.capital += pnl_usd" is reached only when
\* exchange.close_position did not raise
PnlApplied(exchange_ok) == exchange_ok

\* variant: a raise of the trade database restores the state the handler
\* started from
AfterLedgerFailure_RolledBack(before, after) == before

\* the except branches of execute_entry and _close_position report the
\* exception and restore nothing: what the try block had assigned stays
AfterLedgerFailure(before, after) == after

\* TradingSystem._close_position.  exchange.close_position raises when the
\* call fails or the exchange holds no position for the symbol; a raise
\* of db.log_trade_exit skips the rest of the try block, "del
\* self.positions[symbol]" included; both are reported by alert_error.
LiveClosePosition(st, symbol, exit_price, exit_reason, fault) ==
    LET position == PosOf(st.positions, symbol)
        calls_exchange == exit_reason # "Exchange Stop Loss"
        exchange_ok == ~calls_exchange \/
                       (fault # "close_position" /\ symbol \in st.exchange)
        pnl_pct == RSub(RDiv(exit_price, position.entry_price), One)
        pnl_usd == RMul(position.position_size_usd, pnl_pct)
        alert == [context |-> "Exit Execution", symbol |-> symbol]
        credited == IF PnlApplied(exchange_ok)
                    THEN [st EXCEPT !.capital = RAdd(@, pnl_usd),
                                    !.exchange = @ \ {symbol}]
                    ELSE st
    IN  IF ~exchange_ok
        THEN [credited EXCEPT !.alerts = Append(@, alert),
                              !.log.close_failed = @ \cup {symbol}]
        ELSE IF fault = "log_trade_exit"
        THEN [AfterLedgerFailure(st, credited) EXCEPT
                  !.alerts = Append(@, alert)]
        ELSE [credited EXCEPT !.positions = RemovePos(@, symbol)]

RECURSIVE LiveCloseAll(_, _, _, _)
\* the loop of TradingSystem.stop over list(self.positions.keys())
LiveCloseAll(st, order, price, fault) ==
    IF order = << >> THEN st
    ELSE LiveCloseAll(LiveClosePosition(st, Head(order), price,
                                        "System Shutdown", fault),
                      Tail(order), price, fault)

RECURSIVE LiveCheckExits(_, _, _, _, _)
\* TradingSystem.check_exits over list(self.positions.keys()); found[s] is
\* what the exchange shows for symbol s: the MA test comes first, then
\* get_positions, which shows size 0 for a position the exchange has
\* closed
LiveCheckExits(st, cfg, order, found, fault) ==
    IF order = << >> THEN st
    ELSE LET s == Head(order)
             price == R(found[s].price, 1)
             p == PosOf(st.positions, s)
             ma_exit == found[s].kind = "ma_exit" /\ cfg.use_ma_exit
             gone == found[s].kind = "exchange_stop" \/ s \notin st.exchange
             st1 == IF ma_exit
                    THEN LiveClosePosition(st, s, price, "MA Exit", fault)
                    ELSE IF gone
                    THEN LiveClosePosition(
                             [st EXCEPT !.exchange = @ \ {s}],
                             s, price, "Exchange Stop Loss", fault)
                    ELSE [st EXCEPT !.positions =
                             PutPos(st.positions,
                                    [p EXCEPT !.peak_price = RMax(p.peak_price, price)])]
         IN  LiveCheckExits(st1, cfg, Tail(order), found, fault)

\* the symbols of self.positions in dict order
Keys(ps) == [i \in 1..Len(ps) |-> ps[i].symbol]

\* variant: the position is tracked whatever place_order did
PositionTracked_Always(accepted) == TRUE

\* execute_entry: "self.positions[symbol] = {...}" follows place_order in
\* the try block and is reached only when place_order returned
PositionTracked(accepted) == accepted

\* TradingSystem.execute_entry; the sizer keeps the account size it was
\* constructed with.  A raise of place_order or of db.log_trade_entry is
\* reported by alert_error and the call returns False.
ExecuteEntry(st, cfg, mult, signal, date, fault) ==
    LET sizing == CalculatePositionSize(cfg.initial_capital, cfg, signal.price,
                                        Len(st.positions))
        symbol == signal.symbol
        position == [symbol            |-> symbol,
                     entry_price       |-> signal.price,
                     entry_date        |-> date,
                     num_contracts     |-> RMul(sizing.num_contracts, mult),
                     position_size_usd |-> RMul(sizing.position_size_usd, mult),
                     stop_loss         |-> RMul(signal.price,
                                                RSub(One, cfg.stop_loss_pct)),
                     peak_price        |-> signal.price]
        accepted == fault # "place_order"
        alert == [context |-> "Entry Execution", symbol |-> symbol]
        ordered == IF accepted
                   THEN [st EXCEPT !.exchange = @ \cup {symbol}]
                   ELSE [st EXCEPT !.log.place_failed = @ \cup {symbol}]
        tracked == IF PositionTracked(accepted)
                   THEN [ordered EXCEPT !.positions = PutPos(@, position)]
                   ELSE ordered
    IN  IF ~sizing.can_open
        THEN [st EXCEPT !.log.entry_false = @ \cup {symbol}]
        ELSE IF ~accepted
        THEN [tracked EXCEPT !.alerts = Append(@, alert),
                             !.log.entry_false = @ \cup {symbol}]
        ELSE IF fault = "log_trade_entry"
        THEN [AfterLedgerFailure(ordered, tracked) EXCEPT
                  !.alerts = Append(@, alert),
                  !.log.entry_false = @ \cup {symbol}]
        ELSE tracked

RECURSIVE ExecuteEntries(_, _, _, _, _, _)
\* "for signal in signals[:slots]: self.execute_entry(signal)"
ExecuteEntries(st, cfg, mult, signals, date, fault) ==
    IF signals = << >> THEN st
    ELSE ExecuteEntries(ExecuteEntry(st, cfg, mult, Head(signals), date, fault),
                        cfg, mult, Tail(signals), date, fault)

\* the calls that can fail in check_exits and stop
ExitFaults(cfg) == cfg.faults \ {"place_order", "log_trade_entry"}

\* TradingSystem.scan_for_signals
ScanForSignals(cfg, held, sig, date) ==
    LET quote == [s \in SeqToSet(cfg.symbols) |->
                     [close |-> cfg.signal_price, high |-> cfg.signal_price,
                      low |-> cfg.signal_price]]
    IN  SortByStrength(Opportunities(cfg.symbols, held, SeqToSet(cfg.symbols),
                                     sig, quote, date))

\* TradingSystem.run_once, called by _run_loop at the clock's next date
RunOnce ==
    /\ pc = "waiting"
    /\ day_idx < MaxSteps
    /\ \E adv \in (IF day_idx = 0 THEN {0} ELSE config.advances) :
       \E date \in {IF day_idx = 0 THEN config.start_day ELSE now + adv} :
       \E chk \in {LiveCheckRiskLimits(LiveRisk, capital, config, date)} :
           /\ now' = date
           /\ day_idx' = day_idx + 1
           /\ daily_start_capital' = chk.rk.daily_start_capital
           /\ weekly_start_capital' = chk.rk.weekly_start_capital
           /\ monthly_start_capital' = chk.rk.monthly_start_capital
           /\ current_date' = chk.rk.current_date
           /\ current_week' = chk.rk.current_week
           /\ current_month' = chk.rk.current_month
           /\ size_multiplier' = chk.rk.size_multiplier
           /\ daily_trading_stopped' = chk.rk.daily_trading_stopped
           /\ system_halted' = chk.rk.system_halted
           /\ risk_events' = risk_events \o chk.events
           /\ trading_stopped' = Blocked(chk.stop, chk.rk.system_halted)
           /\ IF trading_stopped'
              THEN /\ exits_checked' = FALSE
                   /\ signal_rows' = << >>
                   /\ slots_available' = None
                   /\ held_before' = {}
                   /\ call_log' = NoCalls
                   /\ positions' = PositionsAfterBreach(positions, chk.events)
                   /\ UNCHANGED <<capital, exchange_positions, error_alerts>>
              ELSE \E found \in [Held(positions) -> config.outcomes] :
                   \E sig \in config.scans :
                   \E fault \in config.faults :
                   \E st1 \in {LiveCheckExits(
                                   LiveState(capital, positions,
                                             exchange_positions, error_alerts),
                                   config, Keys(positions), found, fault)} :
                     LET scanning == Len(st1.positions) < config.max_positions
                         slots == config.max_positions - Len(st1.positions)
                         signals == ScanForSignals(config, Held(st1.positions),
                                                   sig, date)
                     IN  \E st2 \in {IF scanning
                                      THEN ExecuteEntries(st1, config,
                                                          chk.rk.size_multiplier,
                                                          Prefix(signals, slots),
                                                          date, fault)
                                      ELSE st1} :
                         /\ Len(st2.alerts) <= MaxFaults
                         /\ exits_checked' = (positions # << >>)
                         /\ capital' = st2.capital
                         /\ positions' = st2.positions
                         /\ exchange_positions' = st2.exchange
                         /\ error_alerts' = st2.alerts
                         /\ call_log' = st2.log
                         /\ signal_rows' = IF scanning THEN sig ELSE << >>
                         /\ slots_available' = IF scanning THEN slots ELSE None
                         /\ held_before' = IF scanning THEN Held(st1.positions)
                                           ELSE {}
    /\ UNCHANGED <<config, unitVars, pc, bar, account_size, trades, equity_last,
                   equity_count, current_universe, next_update_idx,
                   pending_entries>>

\* _run_loop between two scans: check_exits every exit_check_interval
\* seconds while positions are open
CheckExitsBetweenScans ==
    /\ pc = "waiting"
    /\ day_idx > 0
    /\ positions # << >>
    /\ \E found \in [Held(positions) -> config.outcomes] :
       \E fault \in ExitFaults(config) :
         \E st1 \in {LiveCheckExits(LiveState(capital, positions,
                                               exchange_positions, error_alerts),
                                     config, Keys(positions), found, fault)} :
             /\ Len(st1.alerts) <= MaxFaults
             /\ capital' = st1.capital
             /\ positions' = st1.positions
             /\ exchange_positions' = st1.exchange
             /\ error_alerts' = st1.alerts
             /\ call_log' = st1.log
    /\ UNCHANGED <<config, unitVars, pc, day_idx, now, bar, account_size, trades, riskVars,
                   equity_last, equity_count, risk_events, stepVars,
                   current_universe, next_update_idx, liveVars>>

\* run_once during which SIGINT/SIGTERM is delivered, up to its entry
\* loop: check_risk_limits, check_exits and scan_for_signals have run and
\* signals[:slots] waits in the loop's iterator; the handler runs on the
\* main thread before, between or after the calls of execute_entry; no
\* collaborator call fails
RunOnceInterrupted ==
    /\ pc = "waiting"
    /\ day_idx < MaxSteps
    /\ \E adv \in (IF day_idx = 0 THEN {0} ELSE config.advances) :
       \E chk \in {LiveCheckRiskLimits(LiveRisk, capital, config,
                                       IF day_idx = 0 THEN config.start_day
                                       ELSE now + adv)} :
         /\ ~Blocked(chk.stop, chk.rk.system_halted)
         /\ now' = chk.rk.current_date
         /\ day_idx' = day_idx + 1
         /\ daily_start_capital' = chk.rk.daily_start_capital
         /\ weekly_start_capital' = chk.rk.weekly_start_capital
         /\ monthly_start_capital' = chk.rk.monthly_start_capital
         /\ current_date' = chk.rk.current_date
         /\ current_week' = chk.rk.current_week
         /\ current_month' = chk.rk.current_month
         /\ size_multiplier' = chk.rk.size_multiplier
         /\ daily_trading_stopped' = chk.rk.daily_trading_stopped
         /\ system_halted' = chk.rk.system_halted
         /\ risk_events' = risk_events \o chk.events
         /\ trading_stopped' = FALSE
         /\ \E found \in [Held(positions) -> config.outcomes] :
            \E sig \in config.scans :
            \E st1 \in {LiveCheckExits(
                            LiveState(capital, positions, exchange_positions,
                                      error_alerts),
                            config, Keys(positions), found, "none")} :
              /\ Len(st1.positions) < config.max_positions
              /\ \E todo \in {Prefix(ScanForSignals(config, Held(st1.positions),
                                                     sig, chk.rk.current_date),
                                      config.max_positions - Len(st1.positions))} :
                   /\ exits_checked' = (positions # << >>)
                   /\ capital' = st1.capital
                   /\ positions' = st1.positions
                   /\ exchange_positions' = st1.exchange
                   /\ error_alerts' = st1.alerts
                   /\ call_log' = st1.log
                   /\ signal_rows' = sig
                   /\ slots_available' = config.max_positions - Len(st1.positions)
                   /\ held_before' = Held(st1.positions)
                   /\ pending_entries' = todo
    /\ pc' = "entering"
    /\ UNCHANGED <<config, unitVars, bar, account_size, trades, equity_last,
                   equity_count, current_universe, next_update_idx>>

\* the live state of a handler that is still running: its collaborator
\* calls so far stay in the log
LiveStateInHandler ==
    [LiveState(capital, positions, exchange_positions, error_alerts)
        EXCEPT !.log = call_log]

\* one pass of "for signal in signals[:slots]: self.execute_entry(signal)"
\* in the interrupted run_once; after the handler has run, _run_loop exits
\* on "while self.running" when the loop ends
ExecuteEntryStep ==
    /\ pc \in {"entering", "resuming"}
    /\ pending_entries # << >>
    /\ \E st2 \in {ExecuteEntry(LiveStateInHandler, config, size_multiplier,
                                Head(pending_entries), current_date, "none")} :
         /\ capital' = st2.capital
         /\ positions' = st2.positions
         /\ exchange_positions' = st2.exchange
         /\ error_alerts' = st2.alerts
         /\ call_log' = st2.log
    /\ pending_entries' = Tail(pending_entries)
    /\ pc' = IF pc = "resuming" /\ Tail(pending_entries) = << >>
             THEN "interrupted" ELSE pc
    /\ UNCHANGED <<config, unitVars, day_idx, now, bar, account_size, trades, riskVars,
                   equity_last, equity_count, risk_events, stepVars,
                   current_universe, next_update_idx, monthly_start_capital,
                   current_month, system_halted, trading_stopped, exits_checked>>

\* TradingSystem._signal_handler: stop() closes every tracked position at
\* the ticker price and returns into the interrupted run_once
SignalHandler ==
    /\ pc = "entering"
    /\ \E st3 \in {LiveCloseAll(LiveStateInHandler, Keys(positions),
                                R(config.shutdown_price, 1), "none")} :
         /\ capital' = st3.capital
         /\ positions' = st3.positions
         /\ exchange_positions' = st3.exchange
         /\ error_alerts' = st3.alerts
         /\ call_log' = st3.log
    /\ pc' = IF pending_entries = << >> THEN "interrupted" ELSE "resuming"
    /\ UNCHANGED <<config, unitVars, day_idx, now, bar, account_size, trades, riskVars,
                   equity_last, equity_count, risk_events, stepVars,
                   current_universe, next_update_idx, liveVars>>

\* TradingSystem.stop: every tracked position is closed at the ticker price
Stop ==
    /\ pc = "waiting"
    /\ day_idx > 0
    /\ \E fault \in ExitFaults(config) :
         \E st1 \in {LiveCloseAll(LiveState(capital, positions,
                                             exchange_positions, error_alerts),
                                   Keys(positions), R(config.shutdown_price, 1),
                                   fault)} :
             /\ Len(st1.alerts) <= MaxFaults
             /\ capital' = st1.capital
             /\ positions' = st1.positions
             /\ exchange_positions' = st1.exchange
             /\ error_alerts' = st1.alerts
             /\ call_log' = st1.log
    /\ pc' = "stopped"
    /\ UNCHANGED <<config, unitVars, day_idx, now, bar, account_size, trades, riskVars,
                   equity_last, equity_count, risk_events, stepVars,
                   current_universe, next_update_idx, liveVars>>

\* ------------------------------------------------------------------------
\* Library functions called on their own
\* ------------------------------------------------------------------------
engineVars == <<config, pc, day_idx, now, bar, bookVars, riskVars, equity_last,
                equity_count, risk_events, stepVars, current_universe,
                next_update_idx, liveVars, ioVars>>

\* PositionSizer.calculate_position_size(entry_price, current_positions)
\* on a sizer built from the configuration; the call assigns no attribute
CalculatePositionSizeCall ==
    /\ pc = "call"
    /\ config.engine = "sizer"
    /\ \E entry_price \in config.entry_prices, current_positions \in 0..3 :
         /\ args' = [fn |-> "calculate_position_size",
                     entry_price |-> entry_price,
                     current_positions |-> current_positions]
         /\ ret' = CalculatePositionSize(account_size, config, entry_price,
                                         current_positions)
    /\ UNCHANGED <<engineVars, universe_history, cache_file>>

\* signals.exit_signals.calculate_trailing_stop
CalculateTrailingStopCall ==
    /\ pc = "call"
    /\ config.engine = "exit_signals"
    /\ \E entry_price \in config.entry_prices,
          current_price \in config.current_prices,
          peak_price \in config.peak_prices,
          trailing_stop_pct \in config.trailing_stop_pcts :
         /\ args' = [fn |-> "calculate_trailing_stop",
                     entry_price |-> entry_price,
                     current_price |-> current_price,
                     peak_price |-> peak_price,
                     trailing_stop_pct |-> trailing_stop_pct]
         /\ ret' = CalculateTrailingStop(entry_price, current_price, peak_price,
                                         trailing_stop_pct)
    /\ UNCHANGED <<engineVars, universe_history, cache_file>>

\* np.inf
Infinity == <<1, 0>>

\* sum([t.return_usd for t in ts])
RECURSIVE SumReturnUsd(_)
SumReturnUsd(ts) ==
    IF ts = << >> THEN Zero
    ELSE RAdd(Head(ts).return_usd, SumReturnUsd(Tail(ts)))

\* equity_curve['drawdown'].min(): the drawdown of every row against the
\* running maximum (cummax) of the rows up to it
RECURSIVE MinDrawdown(_, _, _)
MinDrawdown(equity, cummax, lowest) ==
    IF equity = << >> THEN lowest
    ELSE LET top == RMax(cummax, Head(equity))
             drawdown == RDiv(RSub(Head(equity), top), top)
         IN  MinDrawdown(Tail(equity), top,
                         IF RLt(drawdown, lowest) THEN drawdown ELSE lowest)

\* performance._empty_metrics
EmptyMetrics ==
    [raised |-> FALSE, total_trades |-> 0, winning_trades |-> 0,
     losing_trades |-> 0, win_rate |-> Zero, avg_return_pct |-> Zero,
     avg_win_pct |-> Zero, avg_loss_pct |-> Zero, profit_factor |-> Zero,
     total_return |-> Zero, max_drawdown |-> Zero, sharpe_ratio |-> Zero]

\* the metrics computed from a ledger that is not empty; len(None) raises
\* TypeError, and a key is set only when its frame has rows
TradeMetrics(trade_list, equity_curve, daily_returns, initial_capital) ==
    LET winning_trades == SelectSeq(trade_list, LAMBDA t : RLt(Zero, t.return_pct))
        losing_trades == SelectSeq(trade_list, LAMBDA t : RLe(t.return_pct, Zero))
        total_wins == SumReturnUsd(winning_trades)
        total_losses == LET s == SumReturnUsd(losing_trades)
                        IN  IF RLt(s, Zero) THEN RNeg(s) ELSE s
        trade_part ==
            [raised |-> FALSE,
             total_trades |-> Len(trade_list),
             winning_trades |-> Len(winning_trades),
             losing_trades |-> Len(losing_trades),
             win_rate |-> R(Len(winning_trades), Len(trade_list)),
             total_profit_usd |-> total_wins,
             total_loss_usd |-> total_losses,
             profit_factor |-> IF RLt(Zero, total_losses)
                               THEN RDiv(total_wins, total_losses)
                               ELSE Infinity]
        equity_part ==
            LET equity == equity_curve.values
            IN  IF equity = << >> THEN << >>
                ELSE [final_equity |-> equity[Len(equity)],
                      total_return |-> RSub(RDiv(equity[Len(equity)],
                                                 initial_capital), One),
                      max_drawdown |-> MinDrawdown(equity, Head(equity), Zero)]
        \* the std() of a series of one value is NaN, and NaN > 0 is False
        returns_part ==
            IF daily_returns.values = << >> THEN << >>
            ELSE [sharpe_ratio |-> Zero, sortino_ratio |-> Zero]
    IN  IF ~equity_curve.frame \/ ~daily_returns.frame
        THEN [raised |-> TRUE]
        ELSE trade_part @@ equity_part @@ returns_part

\* the function without its early return for an empty ledger
CalculatePerformanceMetrics_NoEarlyReturn(trade_list, equity_curve, daily_returns, initial_capital) ==
    IF trade_list = << >> /\ (~equity_curve.frame \/ ~daily_returns.frame)
    THEN [raised |-> TRUE]
    ELSE IF trade_list = << >>
    THEN [EmptyMetrics EXCEPT !.profit_factor = Infinity]
    ELSE TradeMetrics(trade_list, equity_curve, daily_returns, initial_capital)

\* performance.calculate_performance_metrics
CalculatePerformanceMetrics(trade_list, equity_curve, daily_returns, initial_capital) ==
    IF Len(trade_list) = 0 THEN EmptyMetrics
    ELSE TradeMetrics(trade_list, equity_curve, daily_returns, initial_capital)

CalculatePerformanceMetricsCall ==
    /\ pc = "call"
    /\ config.engine = "performance"
    /\ \E trade_list \in config.trade_lists,
          equity_curve \in config.equity_curves,
          daily_returns \in config.return_series :
         /\ args' = [fn |-> "calculate_performance_metrics",
                     trades |-> trade_list, equity_curve |-> equity_curve,
                     daily_returns |-> daily_returns]
         /\ ret' = CalculatePerformanceMetrics(trade_list, equity_curve,
                                               daily_returns,
                                               config.initial_capital)
    /\ UNCHANGED <<engineVars, universe_history, cache_file>>

\* the first key of universe_history, in dict order, fewer than
\* update_frequency_days days away from date_key (0 when there is none)
NearbyScan(history, cfg, date_key) ==
    LET near == {i \in 1..Len(history) :
                    Abs(date_key - history[i].date) < cfg.update_frequency_days}
    IN  IF near = {} THEN 0
        ELSE CHOOSE i \in near : \A j \in near : i <= j

\* the key of universe_history equal to date_key (0 when there is none)
ExactScan(history, date_key) ==
    LET hit == {i \in 1..Len(history) : history[i].date = date_key}
    IN  IF hit = {} THEN 0 ELSE CHOOSE i \in hit : TRUE

\* the scanner that reuses a scan only for the very date it was made for
ScanUniverseAtDate_ExactOnly(history, saved, cfg, date_key, listing) ==
    IF ExactScan(history, date_key) # 0
    THEN [universe |-> history[ExactScan(history, date_key)].universe,
          api_scan |-> FALSE, universe_history |-> history,
          cache_file |-> saved]
    ELSE LET universe == SubSeq(listing, 1,
                                IF Len(listing) < cfg.max_symbols
                                THEN Len(listing) ELSE cfg.max_symbols)
             stored == Append(history, [date |-> date_key,
                                        universe |-> universe,
                                        scan_date |-> date_key])
         IN  [universe |-> universe, api_scan |-> TRUE,
              universe_history |-> stored, cache_file |-> stored]

\* DynamicUniverseScanner.scan_universe_at_date: the universe returned,
\* whether api.get_symbol_info_at_date was called, and the dict and the
\* cache file afterwards
ScanUniverseAtDate(history, saved, cfg, date_key, listing) ==
    IF ExactScan(history, date_key) # 0
    THEN [universe |-> history[ExactScan(history, date_key)].universe,
          api_scan |-> FALSE, universe_history |-> history,
          cache_file |-> saved]
    ELSE IF NearbyScan(history, cfg, date_key) # 0
    THEN LET cached == history[NearbyScan(history, cfg, date_key)]
         IN  [universe |-> cached.universe, api_scan |-> FALSE,
              universe_history |-> Append(history,
                                          [date |-> date_key,
                                           universe |-> cached.universe,
                                           scan_date |-> cached.scan_date]),
              cache_file |-> saved]
    ELSE LET universe == SubSeq(listing, 1,
                                IF Len(listing) < cfg.max_symbols
                                THEN Len(listing) ELSE cfg.max_symbols)
             stored == Append(history, [date |-> date_key,
                                        universe |-> universe,
                                        scan_date |-> date_key])
         IN  [universe |-> universe, api_scan |-> TRUE,
              universe_history |-> stored, cache_file |-> stored]

ScanUniverseAtDateCall ==
    /\ pc = "call"
    /\ config.engine = "scanner"
    /\ \E date_key \in config.scan_dates, listing \in config.listings :
         \E scan \in {ScanUniverseAtDate(universe_history, cache_file, config,
                                         date_key, listing)} :
            /\ args' = [fn |-> "scan_universe_at_date", date |-> date_key]
            /\ ret' = [universe |-> scan.universe, api_scan |-> scan.api_scan]
            /\ universe_history' = scan.universe_history
            /\ cache_file' = scan.cache_file
    /\ UNCHANGED engineVars

Next ==
    \/ BeginStep
    \/ CheckUniverseExits
    \/ CheckExits
    \/ CheckEntries
    \/ CheckEntriesFiltered
    \/ UpdateEquity
    \/ CloseAllPositions
    \/ RunOnce
    \/ CheckExitsBetweenScans
    \/ Stop
    \/ RunOnceInterrupted
    \/ ExecuteEntryStep
    \/ SignalHandler
    \/ CalculatePositionSizeCall
    \/ CalculateTrailingStopCall
    \/ CalculatePerformanceMetricsCall
    \/ ScanUniverseAtDateCall

Spec == Init /\ [][Next]_vars

TypeOK ==
    pc \in {"loop", "universe_exits", "exits", "entries", "equity", "done",
            "crashed", "waiting", "stopped", "entering", "resuming",
            "interrupted",
            "call"}

\* ------------------------------------------------------------------------
\* Properties
\* ------------------------------------------------------------------------
RECURSIVE SumReturns(_)
\* sum of return_usd over a trade ledger
SumReturns(ts) ==
    IF ts = << >> THEN Zero ELSE RAdd(Head(ts).return_usd, SumReturns(Tail(ts)))

RECURSIVE OpenNotional(_)
\* sum of position_size_usd over the open positions
OpenNotional(ps) ==
    IF ps = << >> THEN Zero
    ELSE RAdd(Head(ps).position_size_usd, OpenNotional(Tail(ps)))

Backtesting == config.engine \in {"backtest", "realistic"}

\* the universe the engine has in force at the current step
UniverseInForce ==
    IF config.engine = "realistic" THEN SeqToSet(current_universe) ELSE Syms

\* symbols opened by this step's entry selection
OpenedNow == {positions[i].symbol : i \in {j \in 1..Len(positions) :
                                            positions[j].entry_date = now}}

\* candidates of this step: in the universe, not held, entry_signal true
Eligible == {s \in UniverseInForce : s \notin held_before /\ signal_rows[s] # NoSignal}

AfterEntries == Backtesting /\ pc = "equity"

\* C1: capital conservation.  When a run of Backtester.run or
\* RealisticBacktester.run_realistic has completed, final cash plus the
\* notional of the positions still open equals initial_capital plus the
\* sum of return_usd over the trade ledger.
C1_CapitalConservation ==
    (Backtesting /\ pc = "done") =>
        RAdd(capital, OpenNotional(positions)) =
            RAdd(config.initial_capital, SumReturns(trades))

C1_Witness ==
    /\ Backtesting /\ pc = "done"
    /\ \E i, j \in 1..Len(trades) :
          /\ trades[i].exit_reason = "end_of_backtest"
          /\ trades[j].exit_reason \in {"trailing_stop", "ma_exit"}
          /\ trades[i].return_usd # Zero

\* C2: cash never goes negative.  In every reachable state of the
\* backtester self.capital >= 0.
C2_CashNeverNegative == Backtesting => RLe(Zero, capital)

\* C6: the risk gate is applied in every engine variant.  The entry
\* selection of every step of Backtester.run and of run_realistic consults
\* the risk-limit controller first: afterwards the controller holds the
\* step's date and ISO week, and when capital is down by the weekly limit
\* against the week's starting capital the multiplier applied to the
\* step's entries is 0.5.
C6_RiskGateConsulted ==
    [][(Backtesting /\ pc = "entries" /\ pc' = "equity") =>
          /\ current_date' = now
          /\ current_week' = IsoWeek(now)
          /\ LossBreached(capital, weekly_start_capital',
                          config.weekly_loss_limit_pct)
                 => size_multiplier' = R(1, 2)]_vars

Live == config.engine = "live"

\* a step that evaluates the risk limits: Backtester._check_entries, or
\* TradingSystem.run_once; the date of the check is now'
RunOnceStep == Live /\ pc = "waiting" /\ day_idx' = day_idx + 1

RiskCheckStep ==
    \/ RunOnceStep
    \/ config.engine = "backtest" /\ pc = "entries" /\ pc' = "equity"

\* every position of the next state was already open in this state
NoNewPosition ==
    \A i \in 1..Len(positions') : \E j \in 1..Len(positions) :
        /\ positions'[i].symbol = positions[j].symbol
        /\ positions'[i].entry_date = positions[j].entry_date

\* C3: daily halt (as amended).  At a risk check on the same day: once
\* halted, entries stay blocked whatever capital does, and a drop of the
\* daily limit or more against the day's starting capital (boundary
\* inclusive) blocks entries.  At the first check of another day the daily
\* halt is cleared and daily_start_capital is reset to the current capital;
\* the check then reports entries blocked exactly when the monthly limit
\* halts the system.
C3_DailyHalt ==
    [][RiskCheckStep =>
          LET same_day == now' = current_date
              floor == RMul(daily_start_capital,
                            RSub(One, config.daily_loss_limit_pct))
          IN  /\ (same_day /\ daily_trading_stopped) =>
                     (daily_trading_stopped' /\ trading_stopped')
              /\ (same_day /\ RLe(capital, floor)) =>
                     (daily_trading_stopped' /\ trading_stopped')
              /\ ~same_day => /\ daily_start_capital' = capital
                              /\ ~daily_trading_stopped'
                              /\ trading_stopped' <=> system_halted']_vars

\* a daily halt triggered by a drop of exactly the limit, then the first
\* check of the next day: the halt is cleared, the reference is the
\* capital after the drop, and entries are open again
C3_Witness ==
    /\ Live
    /\ \E i \in 1..Len(risk_events) :
          /\ risk_events[i].type = "DAILY_LOSS_LIMIT"
          /\ risk_events[i].date < current_date
    /\ ~daily_trading_stopped
    /\ ~trading_stopped
    /\ daily_start_capital = RMul(config.initial_capital,
                                  RSub(One, config.daily_loss_limit_pct))
    /\ capital = daily_start_capital

\* C3 as stated: at the first check of the day after a daily halt the gate
\* reopens (entries are not blocked) with daily_start_capital reset to the
\* current capital.
C3_GateReopensNextDay ==
    [][(RiskCheckStep /\ daily_trading_stopped /\ now' # current_date) =>
          /\ daily_start_capital' = capital
          /\ ~trading_stopped']_vars

\* C4: weekly multiplier.  size_multiplier is 1.0 or 0.5; a risk check in
\* the ISO week of the previous one leaves a multiplier of 0.5 at 0.5; the
\* first risk check of another week sets the multiplier to 1.0 and
\* weekly_start_capital to the current capital, whatever the capital and
\* whether or not the previous check ended with daily trading halted.
C4_WeeklyMultiplier ==
    [][/\ size_multiplier' \in {One, R(1, 2)}
       /\ RiskCheckStep =>
             IF IsoWeek(now') = current_week
             THEN size_multiplier = R(1, 2) => size_multiplier' = R(1, 2)
             ELSE /\ size_multiplier' = One
                  /\ weekly_start_capital' = capital
                  /\ current_week' = IsoWeek(now')]_vars

\* the weekly limit was breached in an earlier week (multiplier 0.5), and
\* the first check of the current week has reset multiplier and reference
C4_Witness ==
    /\ \E i \in 1..Len(risk_events) :
          /\ risk_events[i].type = "WEEKLY_LOSS_LIMIT"
          /\ IsoWeek(risk_events[i].date) < current_week
    /\ size_multiplier = One
    /\ RLt(weekly_start_capital, config.initial_capital)

\* C5: system halt is terminal.  Once system_halted is true it stays true,
\* and no step of the live system opens a position.
C5_HaltIsTerminal ==
    [][system_halted => (system_halted' /\ NoNewPosition)]_vars

\* halted by the monthly limit in one month, and a run_once of the next
\* month has reset monthly_start_capital and still reports trading stopped
C5_Witness ==
    /\ Live
    /\ system_halted
    /\ trading_stopped
    /\ \E i \in 1..Len(risk_events) :
          /\ risk_events[i].type = "MONTHLY_LOSS_LIMIT"
          /\ MonthOf(risk_events[i].date) < current_month
    /\ monthly_start_capital = capital

\* C7: exits survive a blocked gate.  A run_once iteration in which the
\* gate reports trading stopped while positions are open still calls
\* check_exits.
C7_ExitsSurviveBlockedGate ==
    [][(RunOnceStep /\ trading_stopped' /\ positions # << >>) =>
          exits_checked']_vars

\* C8: slot limit.  The number of open positions is at most max_positions,
\* and the positions opened by a step's entry selection number at most
\* max_positions minus the positions open when the selection began.
C8_SlotLimit ==
    Backtesting \/ Live =>
        /\ Len(positions) <= config.max_positions
        /\ Cardinality(Held(positions) \ held_before)
               <= config.max_positions - Cardinality(held_before)

\* more candidates than free slots, and the step filled every free slot
C8_Witness ==
    /\ slots_available # None
    /\ Cardinality(Eligible) > slots_available
    /\ Cardinality(held_before) > 0
    /\ Cardinality(Held(positions) \ held_before) = slots_available
    /\ Len(positions) = config.max_positions

\* C9: entry ranking.  The symbols opened in a step are exactly N eligible
\* candidates, N = min(number of candidates, max_positions - open_count),
\* and no candidate is opened while a strictly stronger one is left
\* unopened.
C9_EntryRanking ==
    AfterEntries =>
        LET free == config.max_positions - Cardinality(held_before)
            n == IF Cardinality(Eligible) < free THEN Cardinality(Eligible) ELSE free
        IN  /\ OpenedNow \subseteq Eligible
            /\ Cardinality(OpenedNow) = n
            /\ \A o \in OpenedNow : \A u \in Eligible \ OpenedNow :
                   signal_rows[u] <= signal_rows[o]

\* the example of the claim: strengths [0.9, 0.95, 0.4], one free slot
C9_Witness ==
    /\ AfterEntries
    /\ config.max_positions - Cardinality(held_before) = 1
    /\ Eligible = {1, 2, 3}
    /\ signal_rows = <<90, 95, 40>>
    /\ OpenedNow = {2}

\* C10: entry eligibility.  A position is opened at a step only for a
\* symbol that is in the universe in force, has entry_signal true and has
\* no open position; no symbol is held twice, and a symbol force-closed
\* for leaving the universe is not re-opened in the same step.
C10_EntryEligibility ==
    AfterEntries =>
        /\ \A s \in OpenedNow : /\ s \in UniverseInForce
                                /\ signal_rows[s] # NoSignal
                                /\ s \notin held_before
        /\ \A i, j \in 1..Len(positions) :
               positions[i].symbol = positions[j].symbol => i = j
        /\ \A k \in 1..Len(trades) :
               (trades[k].exit_reason = "removed_from_universe"
                   /\ trades[k].exit_date = now) => trades[k].symbol \notin OpenedNow

\* a symbol was dropped from the universe while held, carries an entry
\* signal in the same step, and another symbol is opened in that step
C10_Witness ==
    /\ AfterEntries
    /\ OpenedNow # {}
    /\ \E k \in 1..Len(trades) :
          /\ trades[k].exit_reason = "removed_from_universe"
          /\ trades[k].exit_date = now
          /\ signal_rows[trades[k].symbol] # NoSignal

Realistic == config.engine = "realistic"

\* indices of the trades appended to the ledger by a step
NewTrades == (Len(trades) + 1)..Len(trades')

\* C11: universe removal (as amended).  _check_universe_exits closes, with
\* exit reason removed_from_universe at the step's date, exactly the open
\* positions whose symbol is absent from the universe in force and has a
\* price row at the step's timestamp, one trade each; a position whose
\* symbol has no row at that timestamp stays open and is tried again at
\* the next step.  The signal exits of the same step record a trade
\* (trailing_stop, ma_exit) only for a symbol of the universe in force.
C11_UniverseRemoval ==
    [][/\ (Realistic /\ pc = "universe_exits") =>
              \A i \in 1..Len(positions) :
                  LET p == positions[i]
                      closed == {k \in NewTrades :
                                    /\ trades'[k].symbol = p.symbol
                                    /\ trades'[k].entry_date = p.entry_date}
                  IN  IF /\ p.symbol \notin SeqToSet(current_universe)
                         /\ HasRow(bar, p.symbol, now)
                      THEN /\ p.symbol \notin Held(positions')
                           /\ Cardinality(closed) = 1
                           /\ \A k \in closed :
                                 /\ trades'[k].exit_reason = "removed_from_universe"
                                 /\ trades'[k].exit_date = now
                      ELSE /\ p \in SeqToSet(positions')
                           /\ closed = {}
       /\ (Realistic /\ pc = "exits") =>
              \A k \in NewTrades :
                  trades'[k].symbol \in SeqToSet(current_universe)]_vars

\* a position opened on the first day, whose symbol left the universe on
\* the second step and had no row there, is closed at the third step with
\* removed_from_universe
C11_Witness ==
    /\ Realistic
    /\ pc = "exits"
    /\ day_idx = 3
    /\ next_update_idx = 3
    /\ \E k \in 1..Len(trades) :
          /\ trades[k].exit_reason = "removed_from_universe"
          /\ trades[k].exit_date = now
          /\ trades[k].entry_date = config.start_day
          /\ trades[k].symbol \notin
                 SeqToSet(config.universe_updates[2].universe)

\* C11 as stated: at every step at which the universe in force does not
\* contain the symbol of an open position, the universe exits of that step
\* close the position.
C11_ClosedAtFirstStep ==
    [][(Realistic /\ pc = "universe_exits") =>
          \A i \in 1..Len(positions) :
              positions[i].symbol \notin SeqToSet(current_universe)
                  => positions[i].symbol \notin Held(positions')]_vars

\* the snapshot with the greatest effective date <= date (the snapshots
\* are in date order), the empty universe before the first one
SnapshotInForce(updates, date) ==
    LET past == {i \in 1..Len(updates) : updates[i].date <= date}
    IN  IF past = {} THEN << >>
        ELSE updates[CHOOSE i \in past : \A j \in past : j <= i].universe

\* C12: snapshot effectiveness.  At every step of run_realistic the
\* universe in force is the snapshot with the greatest effective date that
\* is <= the step's timestamp.
C12_SnapshotInForce ==
    (Realistic /\ pc \in {"universe_exits", "exits", "entries", "equity"}) =>
        current_universe = SnapshotInForce(config.universe_updates, now)

SelectedWith(order, sig) ==
    Held(OpenEntries(Book(capital, account_size, positions, trades), config,
                     size_multiplier,
                     SortByStrength(Opportunities(order, Held(positions),
                                                  UniverseInForce, sig, bar,
                                                  now))).positions)

\* C18: determinism.  On the same prices, signals and universe the entry
\* selection of a step opens the same symbols whatever the order in which
\* the signals dict is iterated, so that two runs on the same inputs have
\* the same ledger and equity curve.
C18_OrderIndependent ==
    (Backtesting /\ pc = "entries" /\ Len(positions) < config.max_positions) =>
        \A sig \in SignalRows(config, bar, now) :
            \A order \in Orders(config.symbols) :
                SelectedWith(order, sig) = SelectedWith(config.symbols, sig)

\* the phase changes of one step of the loop, and its end
StepOrder ==
    {<<"loop", "universe_exits">>, <<"loop", "exits">>,
     <<"universe_exits", "exits">>, <<"exits", "entries">>,
     <<"entries", "equity">>, <<"entries", "crashed">>,
     <<"equity", "loop">>, <<"loop", "done">>}

\* C19: step ordering.  Every step runs universe exits (run_realistic
\* only), signal exits, risk gate and entry selection, equity mark, in
\* this order: forced universe exits are recorded only in the first
\* phase, trailing_stop and ma_exit trades only in the second, positions
\* are opened only in the third.  The equity mark appends one record per
\* step, dated with the step's timestamp, later than the record before
\* it; a step begins only when the previous one has its record, at a
\* later timestamp.
C19_StepOrdering ==
    [][Backtesting =>
          /\ pc' # pc => <<pc, pc'>> \in StepOrder
          /\ (pc = "loop" /\ pc' \notin {"loop", "done"}) =>
                (pc' = "universe_exits" <=> Realistic)
          /\ \A k \in NewTrades :
                CASE pc = "universe_exits" ->
                         trades'[k].exit_reason = "removed_from_universe"
                  [] pc = "exits" ->
                         trades'[k].exit_reason \in {"trailing_stop", "ma_exit"}
                  [] pc = "loop" ->
                         pc' = "done" /\ trades'[k].exit_reason = "end_of_backtest"
                  [] OTHER -> FALSE
          /\ ~NoNewPosition => pc = "entries"
          /\ equity_count' # equity_count =>
                /\ pc = "equity"
                /\ equity_count' = equity_count + 1
                /\ equity_count' = day_idx
                /\ equity_last'.date = now
                /\ equity_last.date = None \/ equity_last.date < now
          /\ day_idx' # day_idx =>
                /\ pc = "loop"
                /\ day_idx' = day_idx + 1
                /\ equity_count = day_idx
                /\ now = None \/ now < now']_vars

\* a step of run_realistic in which all phases acted: a forced universe
\* exit, a signal exit, an entry, and the step's equity record
C19_Witness ==
    /\ Realistic
    /\ pc = "loop"
    /\ day_idx >= 2
    /\ equity_count = day_idx
    /\ equity_last.date = now
    /\ \E k, j \in 1..Len(trades) :
          /\ k < j
          /\ trades[k].exit_reason = "removed_from_universe"
          /\ trades[k].exit_date = now
          /\ trades[j].exit_reason \in {"trailing_stop", "ma_exit"}
          /\ trades[j].exit_date = now
    /\ \E i \in 1..Len(positions) : positions[i].entry_date = now
    /\ equity_last.num_positions = Len(positions)

RECURSIVE FullMark(_, _)
\* quantity times the symbol's latest close, summed over every open position
FullMark(ps, bars) ==
    IF ps = << >> THEN Zero
    ELSE RAdd(RMul(Head(ps).num_contracts, R(bars[Head(ps).symbol].close, 1)),
              FullMark(Tail(ps), bars))

\* C20: equity identity.  The record appended by _update_equity has
\* equity = cash + positions_value, cash = self.capital, num_positions =
\* the number of open positions, and positions_value = the sum over all
\* open positions of quantity times close: no open position is left out
\* of the mark.
C20_EquityIdentity ==
    (Backtesting /\ pc = "loop" /\ day_idx > 0) =>
        /\ equity_last.equity = RAdd(equity_last.cash, equity_last.positions_value)
        /\ equity_last.cash = capital
        /\ equity_last.num_positions = Len(positions)
        /\ equity_last.positions_value = FullMark(positions, bar)

\* the error alerts sent by the step
NewAlerts ==
    {error_alerts'[i] : i \in (Len(error_alerts) + 1)..Len(error_alerts')}

EntryAlert(s) == [context |-> "Entry Execution", symbol |-> s]

ExitAlert(s) == [context |-> "Exit Execution", symbol |-> s]

\* C14: no position without an accepted order.  In a run_once iteration
\* a symbol enters the position map only when exchange.place_order has
\* returned for it in that execute_entry call (the order is then on the
\* exchange); when place_order raises, the symbol is not added to the map,
\* execute_entry returns False and the failure is reported, and an
\* iteration that starts without positions leaves map and capital as
\* they were.
C14_NoPositionWithoutOrder ==
    [][RunOnceStep =>
          /\ \A s \in Held(positions') \ Held(positions) :
                 s \in exchange_positions' /\ s \notin call_log'.place_failed
          /\ \A s \in call_log'.place_failed :
                 /\ s \notin Held(positions')
                 /\ s \in call_log'.entry_false
                 /\ EntryAlert(s) \in NewAlerts
          /\ (call_log'.place_failed # {} /\ positions = << >>) =>
                 (positions' = << >> /\ capital' = capital)]_vars

\* place_order has raised for symbol 1: no position, capital untouched,
\* the failure reported
C14_Witness ==
    /\ Live
    /\ 1 \in call_log.place_failed
    /\ 1 \in call_log.entry_false
    /\ positions = << >>
    /\ capital = config.initial_capital
    /\ EntryAlert(1) \in SeqToSet(error_alerts)

\* for every position whose close failed in the last handler: whatever
\* the next check_exits finds, if the MA exit condition holds for the symbol then
\* _close_position is called for it again (the position is closed, or the
\* failure of the call is reported)
RetryAttempted ==
    \A s \in call_log.close_failed \cap Held(positions) :
      \A found \in [Held(positions) -> config.outcomes] :
        \A fault \in ExitFaults(config) :
          (found[s].kind = "ma_exit" /\ config.use_ma_exit) =>
              LET st1 == LiveCheckExits(
                             LiveState(capital, positions, exchange_positions,
                                       error_alerts),
                             config, Keys(positions), found, fault)
              IN  \/ s \notin Held(st1.positions)
                  \/ ExitAlert(s) \in
                         {st1.alerts[i] :
                             i \in (Len(error_alerts) + 1)..Len(st1.alerts)}

\* C15: failed close is retried.  When exchange.close_position raises
\* inside _close_position, the position stays in the position map as it
\* was, an "Exit Execution" error alert is sent, capital is not credited
\* (a handler all of whose closes fail leaves capital unchanged), and the
\* next exit check in which the exit condition holds calls
\* _close_position for the symbol again.
C15_FailedCloseRetried ==
    [][Live =>
          /\ \A s \in call_log'.close_failed :
                 /\ s \in Held(positions) /\ s \in Held(positions')
                 /\ PosOf(positions', s) = PosOf(positions, s)
                 /\ ExitAlert(s) \in NewAlerts
          /\ (positions # << >> /\ Held(positions) \subseteq call_log'.close_failed)
                 => capital' = capital
          /\ RetryAttempted]_vars

\* exchange.close_position has raised for symbol 1, which the exchange
\* still holds: the position is tracked, capital is untouched, the
\* failure has been reported
C15_Witness ==
    /\ Live
    /\ 1 \in call_log.close_failed
    /\ 1 \in Held(positions)
    /\ 1 \in exchange_positions
    /\ capital = config.initial_capital
    /\ ExitAlert(1) \in SeqToSet(error_alerts)

\* _close_position: pnl_usd of a position closed at exit_price
LivePnl(position, exit_price) ==
    RMul(position.position_size_usd,
         RSub(RDiv(exit_price, position.entry_price), One))

\* the prices at which the live system can close a position
ClosePrices ==
    {R(o.price, 1) : o \in config.outcomes} \cup {R(config.shutdown_price, 1)}

\* C16: ledger failures do not roll back engine state.  When the trade
\* database raises in execute_entry (the failure is reported and it was
\* not place_order that failed), the position recorded after the accepted
\* order is in the position map and the order is on the exchange; when it
\* raises in _close_position (the failure is reported and it was not
\* exchange.close_position that failed), the P&L credited to capital
\* stays credited.
C16_NoRollback ==
    [][Live =>
          /\ \A s \in Syms :
                 (EntryAlert(s) \in NewAlerts /\ s \notin call_log'.place_failed)
                     => (s \in Held(positions') /\ s \in exchange_positions')
          /\ \A s \in Syms :
                 (/\ ExitAlert(s) \in NewAlerts
                  /\ s \notin call_log'.close_failed
                  /\ Len(positions) = 1)
                     => \E price \in ClosePrices :
                            capital' = RAdd(capital,
                                            LivePnl(PosOf(positions, s), price))]_vars

\* db.log_trade_exit has raised while symbol 1 was being closed at a
\* gain: the exchange no longer holds the position and capital keeps the
\* credited P&L
C16_Witness ==
    /\ Live
    /\ ExitAlert(1) \in SeqToSet(error_alerts)
    /\ call_log.close_failed = {}
    /\ 1 \notin exchange_positions
    /\ RLt(config.initial_capital, capital)
    /\ Len(error_alerts) = 1

RECURSIVE SumPnl(_, _)
\* sum of pnl_usd over positions closed at one price
SumPnl(ps, price) ==
    IF ps = << >> THEN Zero
    ELSE RAdd(LivePnl(Head(ps), price), SumPnl(Tail(ps), price))

\* C17: cancellation.  When stop() has returned and no exchange call has
\* failed, the position map is empty and the P&L of every position that
\* was tracked, at the ticker price, has been added to capital.
C17_StopClosesAll ==
    [][(Live /\ pc' = "stopped" /\ call_log'.close_failed = {}) =>
          /\ positions' = << >>
          /\ capital' = RAdd(capital,
                             SumPnl(positions, R(config.shutdown_price, 1)))]_vars

\* C21: peak invariant.  In the backtest engines the peak_price of an
\* open position is at least its entry price and never decreases from
\* one step of the engine to the next, and every trade appended to the
\* ledger has peak_price >= entry_price.
C21_PeakInvariant ==
    [][Backtesting =>
          /\ \A i \in 1..Len(positions') :
                 RLe(positions'[i].entry_price, positions'[i].peak_price)
          /\ \A s \in Held(positions) \cap Held(positions') :
                 RLe(PosOf(positions, s).peak_price,
                     PosOf(positions', s).peak_price)
          /\ \A i \in NewTrades :
                 RLe(trades'[i].entry_price, trades'[i].peak_price)]_vars

\* after an exit check: a position opened at an earlier step has kept a
\* peak above the high of the current row, and the ledger holds a trade
\* whose peak is above its entry price
C21_Witness ==
    /\ Backtesting
    /\ pc = "entries"
    /\ \E i \in 1..Len(positions) :
          /\ HasRow(bar, positions[i].symbol, now)
          /\ positions[i].entry_date < now
          /\ RLt(R(bar[positions[i].symbol].high, 1), positions[i].peak_price)
    /\ \E i \in 1..Len(trades) : RLt(trades[i].entry_price, trades[i].peak_price)

\* C22: MAE sign.  Every trade in the ledger of a backtest engine has
\* max_adverse_excursion <= 0: the minimum low over the rows from the
\* entry row to the exit row, relative to the post-slippage entry price,
\* for rows with low <= close and slippage_pct >= 0.
C22_MaeSign ==
    Backtesting =>
        \A i \in 1..Len(trades) : RLe(trades[i].max_adverse_excursion, Zero)

\* a trade entered on a row with close 1 and low 1 (entry price 6/5) and
\* closed on a row with close 2 and low 2: the minimum low of the window
\* is that of the entry row
C22_Witness ==
    /\ Backtesting
    /\ \E i \in 1..Len(trades) :
          /\ trades[i].entry_price = R(6, 5)
          /\ trades[i].exit_price = R(8, 5)
          /\ trades[i].max_adverse_excursion = R(-1, 6)

\* C23: a breach never touches open positions.  The risk evaluation of
\* Backtester._check_entries appends no trade and leaves every open
\* position as it was, whether or not the weekly limit is breached, and
\* when it stops the step it leaves the position map and capital
\* unchanged; a run_once iteration whose check_risk_limits reports a
\* breach or a halt leaves position map and capital unchanged.
C23_BreachFrame ==
    [][/\ (config.engine = "backtest" /\ pc = "entries") =>
             /\ trades' = trades
             /\ Len(positions') >= Len(positions)
             /\ \A i \in 1..Len(positions) : positions'[i] = positions[i]
             /\ daily_trading_stopped' =>
                    (positions' = positions /\ capital' = capital)
       /\ (RunOnceStep /\ trading_stopped') =>
             (positions' = positions /\ capital' = capital /\ trades' = trades)
      ]_vars

\* Backtester: the weekly limit has been breached at this step while a
\* position opened earlier is held
C23_Witness ==
    /\ config.engine = "backtest"
    /\ pc = "equity"
    /\ size_multiplier = R(1, 2)
    /\ \E i \in 1..Len(risk_events) :
          /\ risk_events[i].type = "WEEKLY_LOSS_LIMIT"
          /\ risk_events[i].date = now
    /\ \E i \in 1..Len(positions) : positions[i].entry_date < now

\* ------------------------------------------------------------------------
\* C24. Sizing formula: a call of calculate_position_size that is not
\* rejected returns account_size * risk_per_trade_pct / stop_loss_pct,
\* clamped to account_size * max_position_size_pct when that fraction of
\* the account would exceed max_position_size_pct; in both cases the
\* fraction is at most max_position_size_pct, risk_usd is the size times
\* stop_loss_pct and num_contracts times entry_price is the size
\* (10000, 2%, 20% and price 0.25 give 1000 and 4000).
\* ------------------------------------------------------------------------
SizerCalled == config.engine = "sizer" /\ args.fn = "calculate_position_size"

C24_SizingFormula ==
    SizerCalled /\ ret.can_open =>
        LET unclamped == RDiv(RMul(account_size, config.risk_per_trade_pct),
                              config.stop_loss_pct)
            clamped == RMul(account_size, max_position_size_pct)
            exceeds == RLt(max_position_size_pct, RDiv(unclamped, account_size))
        IN  /\ ret.position_size_usd = IF exceeds THEN clamped ELSE unclamped
            /\ ret.position_size_pct = RDiv(ret.position_size_usd, account_size)
            /\ RLe(ret.position_size_pct, max_position_size_pct)
            /\ ret.risk_usd = RMul(ret.position_size_usd, config.stop_loss_pct)
            /\ RMul(ret.num_contracts, args.entry_price) = ret.position_size_usd
            /\ (/\ account_size = R(10000, 1)
                /\ config.risk_per_trade_pct = R(1, 50)
                /\ config.stop_loss_pct = R(1, 5)
                /\ args.entry_price = R(1, 4))
               => /\ ret.position_size_usd = R(1000, 1)
                  /\ ret.num_contracts = R(4000, 1)

\* a clamped sizing: 5% risk over a 10% stop asks for half the account
C24_Witness ==
    /\ SizerCalled
    /\ ret.can_open
    /\ account_size = R(10000, 1)
    /\ config.risk_per_trade_pct = R(1, 20)
    /\ config.stop_loss_pct = R(1, 10)
    /\ ret.position_size_usd = R(2000, 1)
    /\ ret.risk_usd = R(200, 1)

\* ------------------------------------------------------------------------
\* C25. Sizing rejection: a call of calculate_position_size that returns
\* reports can_open = False, with zero size, quantity and risk, if and
\* only if current_positions >= max_positions, and the call leaves the
\* sizer's account_size and parameters as they were.
\* ------------------------------------------------------------------------
SizerReturns(result) ==
    /\ ~result.error
    /\ ~result.can_open <=> args'.current_positions >= config.max_positions
    /\ ~result.can_open =>
          /\ result.position_size_usd = Zero
          /\ result.position_size_pct = Zero
          /\ result.num_contracts = Zero
          /\ result.risk_usd = Zero

C25_SizingRejection ==
    [][config.engine = "sizer" =>
          /\ account_size' = account_size
          /\ config' = config
          /\ account_size # Zero \/ args'.current_positions >= config.max_positions
                => SizerReturns(ret')]_vars

\* a call at the position limit on a funded account, rejected
C25_Witness ==
    /\ SizerCalled
    /\ account_size = R(10000, 1)
    /\ args.current_positions = config.max_positions
    /\ ~ret.error
    /\ ~ret.can_open
    /\ ret.position_size_usd = Zero

\* ------------------------------------------------------------------------
\* C26. Commission on both legs: the return_usd of every trade of a
\* backtest, which is the net cash effect of its round trip, equals
\* quantity * (exit_price - entry_price) minus commission_pct times the
\* entry notional minus commission_pct times the exit notional.
\* ------------------------------------------------------------------------
C26_CommissionBothLegs ==
    Backtesting =>
        \A i \in 1..Len(trades) :
            LET t == trades[i]
                entry_notional == RMul(t.num_contracts, t.entry_price)
                exit_notional == RMul(t.num_contracts, t.exit_price)
            IN  t.return_usd =
                    RSub(RSub(RMul(t.num_contracts,
                                   RSub(t.exit_price, t.entry_price)),
                              RMul(config.commission_pct, entry_notional)),
                         RMul(config.commission_pct, exit_notional))

\* ------------------------------------------------------------------------
\* C27. Exit price: a position closed with reason removed_from_universe
\* is closed, like a signal exit (trailing_stop, ma_exit), at the step's
\* close times (1 - slippage_pct), and in both cases commission_pct of
\* the exit notional is charged.
\* ------------------------------------------------------------------------
C27_ExitPrice ==
    [][Backtesting =>
          \A k \in (Len(trades) + 1)..Len(trades') :
              LET t == trades'[k]
                  close == R(bar[t.symbol].close, 1)
              IN  t.exit_reason \in {"removed_from_universe", "trailing_stop",
                                     "ma_exit"}
                    => /\ t.exit_price =
                              RMul(close, RSub(One, config.slippage_pct))
                       /\ t.return_usd =
                              RSub(RMul(t.num_contracts,
                                        RSub(t.exit_price, t.entry_price)),
                                   RMul(config.commission_pct,
                                        RMul(t.num_contracts, t.exit_price)))]_vars

\* a forced exit has just been recorded below the step's close
C27_Witness ==
    /\ config.engine = "realistic"
    /\ pc = "exits"
    /\ trades # << >>
    /\ LET t == trades[Len(trades)]
       IN  /\ t.exit_reason = "removed_from_universe"
           /\ t.exit_date = now
           /\ RLt(t.exit_price, R(bar[t.symbol].close, 1))

\* the statement with the forced exit at the close itself
C27_ForcedExitPrice ==
    [][Backtesting =>
          \A k \in (Len(trades) + 1)..Len(trades') :
              LET t == trades'[k]
                  close == R(bar[t.symbol].close, 1)
              IN  /\ t.exit_reason = "removed_from_universe"
                        => t.exit_price = close
                  /\ t.exit_reason \in {"trailing_stop", "ma_exit"}
                        => t.exit_price =
                               RMul(close, RSub(One, config.slippage_pct))]_vars

\* ------------------------------------------------------------------------
\* C28. Universe cache reuse: scan_universe_at_date(D) performs no API
\* scan when universe_history holds an entry for D or for a date fewer
\* than update_frequency_days days away from D, and returns the universe
\* of such an entry, leaving the cache file as it was; it performs an API
\* scan, stores the result under D and saves the cache only when there is
\* no such entry.
\* ------------------------------------------------------------------------
CachedNear(history, date_key) ==
    {i \in 1..Len(history) :
        Abs(date_key - history[i].date) < config.update_frequency_days}

C28_CacheReuse ==
    [][config.engine = "scanner" =>
          LET near == CachedNear(universe_history, args'.date)
              stored == [date |-> args'.date, universe |-> ret'.universe,
                         scan_date |-> args'.date]
          IN  /\ ret'.api_scan <=> near = {}
              /\ near # {} =>
                    /\ \E i \in near : ret'.universe = universe_history[i].universe
                    /\ \A i \in near : universe_history[i].date = args'.date
                          => ret'.universe = universe_history[i].universe
                    /\ cache_file' = cache_file
                    /\ \A i \in 1..Len(universe_history) :
                          universe_history'[i] = universe_history[i]
              /\ near = {} =>
                    /\ universe_history' = Append(universe_history, stored)
                    /\ cache_file' = universe_history']_vars

\* a scan two days after a cached one was answered from the cache, with
\* no entry for the date itself, after an earlier API scan
C28_Witness ==
    /\ config.engine = "scanner"
    /\ args.fn = "scan_universe_at_date"
    /\ ~ret.api_scan
    /\ Len(universe_history) >= 3
    /\ universe_history[Len(universe_history)].date = args.date
    /\ universe_history[Len(universe_history)].universe = ret.universe
    /\ Len(cache_file) = 2
    /\ \E i \in 1..Len(cache_file) : cache_file[i] \notin SeqToSet(config.cache_file)

\* ------------------------------------------------------------------------
\* C29. Trailing stop function: calculate_trailing_stop returns
\* stop_level = peak_price * (1 - trailing_stop_pct) and stop_triggered
\* true exactly when current_price <= stop_level, the boundary included,
\* whatever entry_price is (peak 125 at 20% gives 100: 105 does not
\* trigger, 100 and 95 do).
\* ------------------------------------------------------------------------
StopCalled ==
    config.engine = "exit_signals" /\ args.fn = "calculate_trailing_stop"

C29_TrailingStop ==
    StopCalled =>
        /\ ret.stop_level =
              RMul(args.peak_price, RSub(One, args.trailing_stop_pct))
        /\ ret.stop_triggered <=> RLe(args.current_price, ret.stop_level)
        /\ \A entry_price \in config.entry_prices :
              CalculateTrailingStop(entry_price, args.current_price,
                                    args.peak_price, args.trailing_stop_pct) = ret
        /\ (args.peak_price = R(125, 1) /\ args.trailing_stop_pct = R(1, 5))
              => /\ ret.stop_level = R(100, 1)
                 /\ ret.stop_triggered <=> args.current_price # R(105, 1)

\* a call with the current price exactly at the stop level
C29_Witness ==
    /\ StopCalled
    /\ args.peak_price = R(125, 1)
    /\ args.trailing_stop_pct = R(1, 5)
    /\ args.current_price = R(100, 1)
    /\ args.entry_price = R(120, 1)
    /\ ret.stop_level = R(100, 1)
    /\ ret.stop_triggered

\* ------------------------------------------------------------------------
\* C30. Empty ledger: calculate_performance_metrics called with zero
\* trades returns, without raising and whatever the equity curve and the
\* daily-return series are, a result with total_trades 0, win_rate 0 and
\* profit_factor 0.
\* ------------------------------------------------------------------------
MetricsCalled ==
    config.engine = "performance" /\ args.fn = "calculate_performance_metrics"

C30_EmptyLedger ==
    MetricsCalled /\ args.trades = << >> =>
        /\ ~ret.raised
        /\ ret.total_trades = 0
        /\ ret.win_rate = Zero
        /\ ret.profit_factor = Zero

\* the call with no trades, no equity frame and one daily return
C30_Witness ==
    /\ MetricsCalled
    /\ args.trades = << >>
    /\ args.equity_curve = NotAFrame
    /\ args.daily_returns = Frame(<<R(1, 10)>>)
    /\ ret = EmptyMetrics

\* ------------------------------------------------------------------------
\* C31. In Backtester, size_multiplier is set to 0.5 only when realized
\* losses of the week reach weekly_loss_limit_pct of the week's starting
\* capital: a step that sets it has at least one trade closed at a loss
\* in the ISO week of the step, and opening positions alone never sets it.
\* ------------------------------------------------------------------------
C31_ReductionNeedsRealizedLoss ==
    [][(config.engine = "backtest" /\ size_multiplier' = R(1, 2)
           /\ size_multiplier # R(1, 2)) =>
          \E k \in 1..Len(trades') :
              /\ RLt(trades'[k].return_usd, Zero)
              /\ IsoWeek(trades'[k].exit_date) = current_week']_vars

\* ------------------------------------------------------------------------
\* C32. In Backtester.run every step has its own timestamp and the daily
\* reference is reset at the first check of a new timestamp, so
\* daily_trading_stopped is false in every reachable state and no
\* DAILY_LOSS_LIMIT is ever reported: no step skips entry selection
\* because of the daily loss limit.
\* ------------------------------------------------------------------------
C32_DailyHaltNeverFires ==
    config.engine = "backtest" =>
        /\ ~daily_trading_stopped
        /\ \A k \in 1..Len(risk_events) :
              risk_events[k].type # "DAILY_LOSS_LIMIT"

\* cash has fallen by far more than the daily limit since the previous
\* step's check, the step's risk check has run on it and entries went on
C32_Witness ==
    /\ config.engine = "backtest"
    /\ pc = "equity"
    /\ current_date = now
    /\ slots_available # None
    /\ RLt(Zero, config.daily_loss_limit_pct)
    /\ \E i \in 1..Len(positions) : positions[i].entry_date = now
    /\ \E k \in 1..Len(trades) :
          /\ trades[k].exit_date = now
          /\ LossBreached(capital,
                          RSub(capital, trades[k].return_usd),
                          config.daily_loss_limit_pct)

\* ------------------------------------------------------------------------
\* C33. Shutdown under interleaving: when the main loop has exited after
\* a signal handler ran stop(), at whatever point of the iteration, and
\* no exchange call failed, no position is tracked as open and none is
\* open on the exchange.
\* ------------------------------------------------------------------------
C33_ShutdownClean ==
    (Live /\ pc \in {"stopped", "interrupted"} /\ error_alerts = << >>) =>
        /\ positions = << >>
        /\ exchange_positions = {}

\* ------------------------------------------------------------------------
\* C34. Exactly-once settlement in the live system: whatever collaborator
\* call fails, a handler that opens no position (check_exits between two
\* scans, stop) adds a realized P&L to capital only in a close that also
\* removes the position from the position map, so that no position stays
\* tracked as open after its P&L has been credited.
\* ------------------------------------------------------------------------
C34_SettledOnce ==
    [][(Live /\ day_idx' = day_idx /\ capital' # capital) =>
          /\ Len(positions') < Len(positions)
          /\ \A i \in 1..Len(positions') :
                positions'[i].symbol \in exchange_positions']_vars

\* ------------------------------------------------------------------------
\* C35. Whenever the engine sizes a new entry, the account_size the
\* PositionSizer uses equals the engine's capital at that moment: a
\* backtest step that opens a position begins its entry selection with
\* sizer.account_size = capital, and a position opened by run_once has
\* the size computed from the capital run_once holds after its exits.
\* ------------------------------------------------------------------------
C35_SizerAccountIsCapital ==
    [][/\ (Backtesting /\ pc \in {"entries"} /\ Len(positions') > Len(positions))
            => account_size = capital
       /\ (Live /\ pc = "waiting" /\ pc' = "waiting" /\ day_idx' = day_idx + 1)
            => \A i \in 1..Len(positions') :
                  LET p == positions'[i]
                  IN  p.symbol \notin Held(positions) =>
                         p.position_size_usd =
                            RMul(CalculatePositionSize(capital', config,
                                                       p.entry_price,
                                                       0).position_size_usd,
                                 size_multiplier')]_vars

\* ------------------------------------------------------------------------
\* C36. Risk events are emitted once per breach: among the events that
\* the check_risk_limits calls of a run have reported there is at most
\* one DAILY_LOSS_LIMIT per calendar day, at most one WEEKLY_LOSS_LIMIT
\* per ISO week and at most one MONTHLY_LOSS_LIMIT.
\* ------------------------------------------------------------------------
C36_OneEventPerBreach ==
    Live =>
        \A i, j \in 1..Len(risk_events) :
            (i < j /\ risk_events[i].type = risk_events[j].type) =>
                /\ risk_events[i].type # "MONTHLY_LOSS_LIMIT"
                /\ risk_events[i].type = "DAILY_LOSS_LIMIT"
                      => risk_events[i].date # risk_events[j].date
                /\ risk_events[i].type = "WEEKLY_LOSS_LIMIT"
                      => IsoWeek(risk_events[i].date) # IsoWeek(risk_events[j].date)

\* ------------------------------------------------------------------------
\* C37. Bounded staleness of the universe cache: after any sequence of
\* scan_universe_at_date requests, the universe returned for a date D,
\* which is the one the cache then holds under D, was produced by an API
\* scan whose date is fewer than update_frequency_days days away from D.
\* ------------------------------------------------------------------------
C37_BoundedStaleness ==
    (config.engine = "scanner" /\ args.fn = "scan_universe_at_date") =>
        \A i \in 1..Len(universe_history) :
            universe_history[i].date = args.date =>
                /\ universe_history[i].universe = ret.universe
                /\ Abs(universe_history[i].scan_date - args.date)
                       < config.update_frequency_days

\* ------------------------------------------------------------------------
\* C38. The exit decision and the recorded peak agree: in every step of
\* _check_exits a position with a row at the step is closed with reason
\* trailing_stop exactly when the step's close is <= (1 - stop_loss_pct)
\* times the position's peak_price after its update with the step's high.
\* ------------------------------------------------------------------------
C38_ExitUsesRecordedPeak ==
    [][(Backtesting /\ pc = "exits") =>
          \A i \in 1..Len(positions) :
              LET p == positions[i]
                  row == bar[p.symbol]
                  peak == RMax(p.peak_price, R(row.high, 1))
                  due == RLe(R(row.close, 1),
                             RMul(peak, RSub(One, config.stop_loss_pct)))
                  stopped == \E k \in (Len(trades) + 1)..Len(trades') :
                                /\ trades'[k].symbol = p.symbol
                                /\ trades'[k].exit_reason = "trailing_stop"
              IN  HasRow(bar, p.symbol, now) => (stopped <=> due)]_vars

\* ------------------------------------------------------------------------
\* C39. Ledger accounting of the Backtester: self.trades is append-only
\* (records already appended are never modified or removed); every Trade
\* appended by a step is for a position that was open before the step,
\* one Trade per closed position, and exactly the closed positions leave
\* self.positions; len(trades) + len(positions) grows by the number of
\* positions the step opened, so the number of positions ever opened
\* equals len(trades) plus the number of open positions.
\* ------------------------------------------------------------------------
C39_LedgerAccounting ==
    [][Backtesting =>
          LET new == (Len(trades) + 1)..Len(trades')
              closed == {trades'[k].symbol : k \in new}
              opened == {i \in 1..Len(positions') :
                             ~\E j \in 1..Len(positions) :
                                 /\ positions[j].symbol = positions'[i].symbol
                                 /\ positions[j].entry_date = positions'[i].entry_date}
          IN  /\ Len(trades') >= Len(trades)
              /\ SubSeq(trades', 1, Len(trades)) = trades
              /\ \A k \in new :
                    /\ trades'[k].symbol \in Held(positions)
                    /\ trades'[k].entry_date =
                           PosOf(positions, trades'[k].symbol).entry_date
                    /\ \A k2 \in new :
                           trades'[k2].symbol = trades'[k].symbol => k2 = k
              /\ new # {} => Held(positions') = Held(positions) \ closed
              /\ Len(trades') + Len(positions') =
                     Len(trades) + Len(positions) + Cardinality(opened)]_vars

\* two trades in the ledger, one of them for a symbol that is held again
C39_Witness ==
    /\ Backtesting
    /\ Len(trades) >= 2
    /\ \E k \in 1..Len(trades) : trades[k].symbol \in Held(positions)
    /\ \E k \in 1..Len(trades) : trades[k].symbol \notin Held(positions)

====
